---- MODULE Spec2Model ----
(***************************************************************************)
(* Model of the transformation stage of the ETL pipeline                   *)
(* (src/src/etl/transform.py): technical indicators, Fibonacci levels,     *)
(* the investment summary and the price variations.                        *)
(*                                                                         *)
(* A pandas DataFrame is a sequence of records (its rows, in file order).  *)
(* A float is an exact fraction, or NaN, or +/-inf: the fraction is a      *)
(* sign, a magnitude in digits of base 10000 (least significant first)     *)
(* and a denominator given as a bag of small factors, so that the          *)
(* exponential averages, whose denominators grow as (span+1)^i, stay       *)
(* exact.  Prices are integers, in units of 0.001 (transform.py:41         *)
(* rounds them to 3 decimals).                                             *)
(***************************************************************************)
EXTENDS Integers, Sequences, FiniteSets, Bags, TLC

(***************************************************************************)
(* Natural numbers of any size: digits of base 10000.                      *)
(***************************************************************************)
RECURSIVE NatNorm(_)
NatNorm(a) ==
    IF a = <<>> THEN a
    ELSE IF a[Len(a)] = 0 THEN NatNorm(SubSeq(a, 1, Len(a) - 1)) ELSE a

Dig(a, i) == IF i <= Len(a) THEN a[i] ELSE 0

RECURSIVE NatOfInt(_)
NatOfInt(n) == IF n = 0 THEN <<>> ELSE <<n % 10000>> \o NatOfInt(n \div 10000)

RECURSIVE NatAddR(_, _, _, _)
NatAddR(a, b, i, c) ==
    IF i > Len(a) /\ i > Len(b) THEN NatOfInt(c)
    ELSE LET s == Dig(a, i) + Dig(b, i) + c
         IN  <<s % 10000>> \o NatAddR(a, b, i + 1, s \div 10000)

NatAdd(a, b) == NatAddR(a, b, 1, 0)

RECURSIVE NatSubR(_, _, _, _)
NatSubR(a, b, i, br) ==
    IF i > Len(a) THEN <<>>
    ELSE LET s == Dig(a, i) - Dig(b, i) - br
         IN  <<s % 10000>> \o NatSubR(a, b, i + 1, IF s < 0 THEN 1 ELSE 0)

\* a - b for a >= b
NatSub(a, b) == NatNorm(NatSubR(a, b, 1, 0))

RECURSIVE NatCmpR(_, _, _)
NatCmpR(a, b, i) ==
    IF i = 0 THEN 0
    ELSE IF a[i] > b[i] THEN 1
    ELSE IF a[i] < b[i] THEN -1
    ELSE NatCmpR(a, b, i - 1)

NatCmp(a, b) ==
    IF Len(a) > Len(b) THEN 1
    ELSE IF Len(a) < Len(b) THEN -1
    ELSE NatCmpR(a, b, Len(a))

RECURSIVE NatMulR(_, _, _, _)
NatMulR(a, f, i, c) ==
    IF i > Len(a) THEN NatOfInt(c)
    ELSE LET s == a[i] * f + c
         IN  <<s % 10000>> \o NatMulR(a, f, i + 1, s \div 10000)

\* a * f for a small factor f (0 <= f < 200000)
NatMul(a, f) == IF f = 0 THEN <<>> ELSE NatMulR(a, f, 1, 0)

RECURSIVE NatMulBag(_, _)
NatMulBag(a, b) ==
    IF BagToSet(b) = {} THEN a
    ELSE LET f == CHOOSE x \in BagToSet(b) : TRUE
         IN  NatMulBag(NatMul(a, f), b (-) SetToBag({f}))

\* the value of a magnitude of at most two digits
NatToInt(a) == Dig(a, 1) + 10000 * Dig(a, 2)

Sign(i) == IF i > 0 THEN 1 ELSE IF i < 0 THEN -1 ELSE 0
Abs(i) == IF i < 0 THEN -i ELSE i

(***************************************************************************)
(* Floats: NaN, +/-inf, or the exact fraction s * m / (product of den).    *)
(***************************************************************************)
NaN == [k |-> "nan"]
Inf(sg) == [k |-> "inf", s |-> sg]
Zero == [k |-> "fin", s |-> 0, m |-> <<>>, den |-> EmptyBag]

MkFin(sg, mag, den) ==
    IF mag = <<>> \/ sg = 0 THEN Zero
    ELSE [k |-> "fin", s |-> sg, m |-> mag, den |-> den]

NumInt(i) == MkFin(Sign(i), NatOfInt(Abs(i)), EmptyBag)

\* a common multiple of two denominators
Common(d1, d2) == d1 (+) (d2 (-) d1)

\* the magnitude of x over the denominator cd (a multiple of x.den)
Scaled(x, cd) == NatMulBag(x.m, cd (-) x.den)

\* sx * a / cd + sy * b / cd, where c compares a with b
FinAddMag(sx, sy, a, b, cd, c) ==
    IF sx = sy THEN MkFin(sx, NatAdd(a, b), cd)
    ELSE IF c = 0 THEN Zero
    ELSE IF c > 0 THEN MkFin(sx, NatSub(a, b), cd)
    ELSE MkFin(sy, NatSub(b, a), cd)

FinAddEn(x, y, cd, a, b) == FinAddMag(x.s, y.s, a, b, cd, NatCmp(a, b))

\* x + y over the common denominator cd
FinAddCd(x, y, cd) == FinAddEn(x, y, cd, Scaled(x, cd), Scaled(y, cd))

FinAdd(x, y) ==
    IF x.s = 0 THEN y
    ELSE IF y.s = 0 THEN x
    ELSE FinAddCd(x, y, Common(x.den, y.den))

FinNeg(x) == IF x.s = 0 THEN x ELSE [x EXCEPT !.s = -x.s]

\* -1, 0 or 1 as x < y, x = y, x > y
FinCmp(x, y) ==
    IF x.s # y.s THEN (IF x.s > y.s THEN 1 ELSE -1)
    ELSE IF x.s = 0 THEN 0
    ELSE LET cd == Common(x.den, y.den)
         IN  x.s * NatCmp(Scaled(x, cd), Scaled(y, cd))

FinMulInt(x, i) ==
    IF i = 0 THEN Zero ELSE MkFin(x.s * Sign(i), NatMul(x.m, Abs(i)), x.den)

\* x / f for an integer f > 0
FinDivInt(x, f) == MkFin(x.s, x.m, x.den (+) SetToBag({f}))

RECURSIVE NatMulNatR(_, _, _)
NatMulNatR(a, b, i) ==
    IF i > Len(b) THEN <<>>
    ELSE NatAdd([j \in 1..(i - 1) |-> 0] \o NatMul(a, b[i]), NatMulNatR(a, b, i + 1))

NatMulNat(a, b) == NatNorm(NatMulNatR(a, b, 1))

FinMul(x, y) == MkFin(x.s * y.s, NatMulNat(x.m, y.m), x.den (+) y.den)

\* the fraction n / d of two integers, d > 0
Frac(n, d) == FinDivInt(NumInt(n), d)

notna(x) == x.k # "nan"
isfin(x) == x.k = "fin"

FNeg(x) ==
    CASE x.k = "nan" -> NaN
      [] x.k = "inf" -> Inf(-x.s)
      [] OTHER       -> FinNeg(x)

FAdd(x, y) ==
    CASE x.k = "nan" \/ y.k = "nan"   -> NaN
      [] x.k = "inf" /\ y.k = "inf"   -> IF x.s = y.s THEN x ELSE NaN
      [] x.k = "inf"                  -> x
      [] y.k = "inf"                  -> y
      [] OTHER                        -> FinAdd(x, y)

FSub(x, y) == FAdd(x, FNeg(y))

FMulInt(x, i) ==
    CASE x.k = "nan" -> NaN
      [] x.k = "inf" -> IF i = 0 THEN NaN ELSE Inf(x.s * Sign(i))
      [] OTHER       -> FinMulInt(x, i)

FDivInt(x, f) == IF x.k = "fin" THEN FinDivInt(x, f) ELSE x

\* x / y as IEEE floats divide: x/0 is +/-inf, 0/0 is NaN, never an exception.
\* The divisor's magnitude is a small integer wherever the program divides.
FDiv(x, y) ==
    CASE x.k = "nan" \/ y.k = "nan"   -> NaN
      [] x.k = "inf" /\ y.k = "inf"   -> NaN
      [] x.k = "inf"                  -> Inf(x.s * (IF y.s < 0 THEN -1 ELSE 1))
      [] y.k = "inf"                  -> Zero
      [] y.s = 0                      -> IF x.s = 0 THEN NaN ELSE Inf(x.s)
      [] OTHER                        ->
            MkFin(x.s * y.s, NatMulBag(x.m, y.den),
                  x.den (+) SetToBag({NatToInt(y.m)}))

FMul(x, y) ==
    CASE x.k = "nan" \/ y.k = "nan"   -> NaN
      [] x.k = "inf" \/ y.k = "inf"   -> IF x.s = 0 \/ y.s = 0 THEN NaN ELSE Inf(x.s * y.s)
      [] OTHER                        -> FinMul(x, y)

\* a + c * sqrt(r) for fractions a, r >= 0 and an integer c: the rolling
\* standard deviation and the Bollinger bands, kept exact
Raiz(a, c, r) ==
    IF r.s = 0 \/ c = 0 THEN a ELSE [k |-> "raiz", a |-> a, c |-> c, r |-> r]

\* the sign of d + c * sqrt(r), r > 0
SignoRaiz(d, c, r) ==
    IF c = 0 THEN d.s
    ELSE IF c > 0 /\ d.s >= 0 THEN 1
    ELSE IF c < 0 /\ d.s <= 0 THEN -1
    ELSE Sign(c) * FinCmp(FinMulInt(r, c * c), FinMul(d, d))  \* c^2 r against d^2

\* x = ParteRacional(x) + Coef(x) * sqrt(radicand)
ParteRacional(x) == IF x.k = "raiz" THEN x.a ELSE x
Coef(x) == IF x.k = "raiz" THEN x.c ELSE 0
\* the radicand of x and y; two surds that are compared have the same one
Radicando(x, y) ==
    CASE x.k = "raiz" /\ y.k = "fin" -> x.r
      [] x.k = "fin" /\ y.k = "raiz" -> y.r
      [] x.k = "raiz" /\ y.k = "raiz" /\ FinCmp(x.r, y.r) = 0 -> x.r

\* the sign of x - y for finite x and y
Signo(x, y) ==
    IF x.k = "fin" /\ y.k = "fin" THEN FinCmp(x, y)
    ELSE SignoRaiz(FinAdd(ParteRacional(x), FinNeg(ParteRacional(y))),
                   Coef(x) - Coef(y), Radicando(x, y))

\* comparisons of floats: any comparison with NaN is false
FCmpOk(x, y) == x.k # "nan" /\ y.k # "nan"
FRank(x) == IF x.k = "inf" THEN 2 * x.s ELSE 0
\* -1, 0 or 1 as x < y, x = y, x > y, neither of them NaN
FCmp(x, y) ==
    IF x.k # "inf" /\ y.k # "inf" THEN Signo(x, y) ELSE Sign(FRank(x) - FRank(y))
FGt(x, y) == FCmpOk(x, y) /\ FCmp(x, y) = 1
FLt(x, y) == FGt(y, x)
FEq(x, y) == FCmpOk(x, y) /\ FCmp(x, y) = 0
FGe(x, y) == FCmpOk(x, y) /\ FCmp(x, y) >= 0
FLe(x, y) == FGe(y, x)
FAbs(x) ==
    CASE x.k = "nan" -> NaN
      [] x.k = "inf" -> Inf(1)
      [] OTHER       -> IF x.s < 0 THEN FinNeg(x) ELSE x

\* the product of the factors of a denominator (small denominators only)
RECURSIVE BagProd(_)
BagProd(b) ==
    IF BagToSet(b) = {} THEN 1
    ELSE LET f == CHOOSE x \in BagToSet(b) : TRUE
         IN  f * BagProd(b (-) SetToBag({f}))

\* n / d rounded to the nearest integer, halves to the even one (d > 0)
RoundHalfEven(n, d) ==
    LET q == n \div d
        r == n % d
    IN  IF 2 * r < d THEN q
        ELSE IF 2 * r > d THEN q + 1
        ELSE IF q % 2 = 0 THEN q ELSE q + 1

RECURSIVE Pow10(_)
Pow10(e) == IF e = 0 THEN 1 ELSE 10 * Pow10(e - 1)

\* round(x, nd) of Python and numpy; NaN and inf are left as they are
FRound(x, nd) ==
    IF x.k # "fin" THEN x
    ELSE Frac(RoundHalfEven(x.s * NatToInt(x.m) * Pow10(nd), BagProd(x.den)),
              Pow10(nd))

(***************************************************************************)
(* DataFrame operations                                                    *)
(***************************************************************************)
NA == "nan"     \* a missing label (np.nan in a column of strings)

Range(sq) == {sq[i] : i \in 1..Len(sq)}

RECURSIVE SelectRows(_, _, _)
SelectRows(df, keep, i) ==
    IF i > Len(df) THEN <<>>
    ELSE (IF i \in keep THEN <<df[i]>> ELSE <<>>) \o SelectRows(df, keep, i + 1)

\* the rows of df at the positions in keep, in df's order
Rows(df, keep) == SelectRows(df, keep, 1)

\* df[df.Ticker == t]
OfTicker(df, t) == Rows(df, {i \in 1..Len(df) : df[i].Ticker = t})

\* the rows of df reordered by a key: before(r1, r2) is the strict order;
\* rows with equal keys keep their order
SortRows(df, before(_, _)) ==
    LET rank(j) == 1 + Cardinality({l \in 1..Len(df) :
                         \/ before(df[l], df[j])
                         \/ ~before(df[j], df[l]) /\ l < j})
    IN  [i \in 1..Len(df) |-> df[CHOOSE j \in 1..Len(df) : rank(j) = i]]

ByDate(r1, r2) == r1.Date < r2.Date
Tickers == <<"A", "B">>
NT == Len(Tickers)
\* the rank of a ticker in the alphabetical order of the tickers
TickerIdx(t) == CHOOSE k \in 1..NT : Tickers[k] = t

ByTickerDate(r1, r2) ==
    \/ TickerIdx(r1.Ticker) < TickerIdx(r2.Ticker)
    \/ r1.Ticker = r2.Ticker /\ r1.Date < r2.Date

\* df.sort_values('Date')
sort_values_Date(df) == SortRows(df, ByDate)

\* mutant: head(1), the first row of every ticker
groupby_head1(df) ==
    Rows(df, {i \in 1..Len(df) :
                 \A j \in 1..(i - 1) : df[j].Ticker # df[i].Ticker})

\* df.groupby('Ticker').tail(1): the last row of every ticker, in df's order
groupby_tail1(df) ==
    Rows(df, {i \in 1..Len(df) :
                 \A j \in (i + 1)..Len(df) : df[j].Ticker # df[i].Ticker})

\* pd.merge(left, right, on='Ticker', how='inner'): for every left row, in
\* order, one joined row per right row of the same ticker
RECURSIVE merge_inner(_, _)
merge_inner(left, right) ==
    IF left = <<>> THEN <<>>
    ELSE LET r == left[1]
             m == OfTicker(right, r.Ticker)
         IN  [i \in 1..Len(m) |-> r @@ m[i]] \o merge_inner(Tail(left), right)

(***************************************************************************)
(* Series: the columns of one ticker's rows, as sequences of floats        *)
(***************************************************************************)
Col(group, c) == [i \in 1..Len(group) |-> NumInt(group[i][c])]

\* s.shift()
shift(s) == [i \in DOMAIN s |-> IF i = 1 THEN NaN ELSE s[i - 1]]

\* s.diff()
diff(s) == [i \in DOMAIN s |-> FSub(s[i], shift(s)[i])]

RECURSIVE FSum(_, _, _)
FSum(s, lo, hi) == IF lo > hi THEN Zero ELSE FAdd(s[lo], FSum(s, lo + 1, hi))

\* rolling(window=w): a value needs w rows, none of them NaN
Completa(s, w, i) == i >= w /\ \A j \in (i - w + 1)..i : notna(s[j])

\* mutant: from row w on, the mean of every row so far
rolling_mean_expansiva(s, w) ==
    [i \in DOMAIN s |->
        IF Completa(s, w, i) THEN FDivInt(FSum(s, 1, i), i) ELSE NaN]

\* s.rolling(window=w).mean()
rolling_mean(s, w) ==
    [i \in DOMAIN s |->
        IF Completa(s, w, i) THEN FDivInt(FSum(s, i - w + 1, i), w) ELSE NaN]

\* s.rolling(window=w).std(): the sample standard deviation (ddof = 1)
rolling_std(s, w) ==
    [i \in DOMAIN s |->
        IF Completa(s, w, i)
        THEN LET media == FDivInt(FSum(s, i - w + 1, i), w)
                 desv  == [j \in 1..w |-> FSub(s[i - w + j], media)]
                 cuad  == [j \in 1..w |-> FMul(desv[j], desv[j])]
             IN  Raiz(Zero, 1, FDivInt(FSum(cuad, 1, w), w - 1))
        ELSE NaN]

\* mid + c * std
Banda(mid, c, std) ==
    IF mid.k = "nan" \/ std.k = "nan" THEN NaN
    ELSE IF std.k = "raiz" THEN Raiz(mid, c * std.c, std.r)
    ELSE mid

\* mutant: the average seeded with 0 instead of the first value
RECURSIVE ewm_desde_cero(_, _, _, _)
ewm_desde_cero(s, span, i, prev) ==
    IF i > Len(s) THEN <<>>
    ELSE LET y == FDivInt(FAdd(FMulInt(s[i], 2),
                               FMulInt(IF i = 1 THEN Zero ELSE prev, span - 1)),
                          span + 1)
         IN  <<y>> \o ewm_desde_cero(s, span, i + 1, y)

\* s.ewm(span=span, adjust=False).mean() from row i on, prev the value of
\* row i - 1: y[1] = s[1], y[i] = alpha s[i] + (1 - alpha) y[i-1] with
\* alpha = 2 / (span + 1)
RECURSIVE ewm_from(_, _, _, _)
ewm_from(s, span, i, prev) ==
    IF i > Len(s) THEN <<>>
    ELSE LET y == IF i = 1 THEN s[1]
                  ELSE FDivInt(FAdd(FMulInt(s[i], 2), FMulInt(prev, span - 1)),
                               span + 1)
         IN  <<y>> \o ewm_from(s, span, i + 1, y)

ewm_mean(s, span) == ewm_from(s, span, 1, NaN)

\* s.clip(lower=0), s.clip(upper=0): NaN stays NaN
clip_lower0(s) == [i \in DOMAIN s |-> IF FLt(s[i], Zero) THEN Zero ELSE s[i]]
clip_upper0(s) == [i \in DOMAIN s |-> IF FGt(s[i], Zero) THEN Zero ELSE s[i]]

\* mutant: a zero average loss gives rs = 0 instead of inf or NaN
calcular_rsi_rs_cero(close, window) ==
    LET delta    == diff(close)
        gain     == clip_lower0(delta)
        loss     == [i \in DOMAIN close |-> FNeg(clip_upper0(delta)[i])]
        avg_gain == rolling_mean(gain, window)
        avg_loss == rolling_mean(loss, window)
        rs       == [i \in DOMAIN close |->
                        IF avg_loss[i].k = "fin" /\ avg_loss[i].s = 0 THEN Zero
                        ELSE FDiv(avg_gain[i], avg_loss[i])]
    IN  [i \in DOMAIN close |->
            FSub(NumInt(100), FDiv(NumInt(100), FAdd(NumInt(1), rs[i])))]

calcular_rsi(close, window) ==
    LET delta    == diff(close)
        gain     == clip_lower0(delta)
        loss     == [i \in DOMAIN close |-> FNeg(clip_upper0(delta)[i])]
        avg_gain == rolling_mean(gain, window)
        avg_loss == rolling_mean(loss, window)
        rs       == [i \in DOMAIN close |-> FDiv(avg_gain[i], avg_loss[i])]
    IN  [i \in DOMAIN close |->
            FSub(NumInt(100), FDiv(NumInt(100), FAdd(NumInt(1), rs[i])))]

\* a - b, row by row
resta(a, b) == [i \in DOMAIN a |-> FSub(a[i], b[i])]

\* the three series that calcular_macd returns
macd_hist(macd, macd_signal) ==
    [macd |-> macd, macd_signal |-> macd_signal, macd_hist |-> resta(macd, macd_signal)]

macd_signal(macd, signal) == macd_hist(macd, ewm_mean(macd, signal))

calcular_macd(close, short, long, signal) ==
    macd_signal(resta(ewm_mean(close, short), ewm_mean(close, long)), signal)

\* mutant: the greatest of the values, NaN when one of them is NaN
RECURSIVE FMaxConNulos(_)
FMaxConNulos(xs) ==
    IF xs = <<>> THEN NaN
    ELSE IF Len(xs) = 1 THEN xs[1]
    ELSE LET m == FMaxConNulos(Tail(xs))
         IN  IF xs[1].k = "nan" \/ m.k = "nan" THEN NaN
             ELSE IF FGt(xs[1], m) THEN xs[1] ELSE m

\* the greatest of the values that are not NaN (DataFrame.max(axis=1))
RECURSIVE FMaxSkipNa(_)
FMaxSkipNa(xs) ==
    IF xs = <<>> THEN NaN
    ELSE LET m == FMaxSkipNa(Tail(xs))
         IN  IF xs[1].k = "nan" THEN m
             ELSE IF m.k = "nan" \/ FGt(xs[1], m) THEN xs[1] ELSE m

calcular_atr(high, low, close, window) ==
    LET high_low   == [i \in DOMAIN close |-> FSub(high[i], low[i])]
        high_close == [i \in DOMAIN close |-> FAbs(FSub(high[i], shift(close)[i]))]
        low_close  == [i \in DOMAIN close |-> FAbs(FSub(low[i], shift(close)[i]))]
        true_range == [i \in DOMAIN close |->
                          FMaxSkipNa(<<high_low[i], high_close[i], low_close[i]>>)]
    IN  rolling_mean(true_range, window)

\* mutant: the volume added whatever the direction of the change
FSignMul_sin_signo(x, v) ==
    CASE x.k = "nan" -> NaN
      [] OTHER       -> FMulInt(v, Abs(x.s))

\* np.sign(x) * v
FSignMul(x, v) ==
    CASE x.k = "nan" -> NaN
      [] OTHER       -> FMulInt(v, x.s)

RECURSIVE cumsum_from(_, _, _)
cumsum_from(s, i, acc) ==
    IF i > Len(s) THEN <<>>
    ELSE <<FAdd(acc, s[i])>> \o cumsum_from(s, i + 1, FAdd(acc, s[i]))

\* mutant: the nulls are left in the series
sin_fillna(s) == s

fillna0(s) == [i \in DOMAIN s |-> IF s[i].k = "nan" THEN Zero ELSE s[i]]

calcular_obv(close, volume) ==
    cumsum_from(fillna0([i \in DOMAIN close |-> FSignMul(diff(close)[i], volume[i])]),
                1, Zero)

(***************************************************************************)
(* calcular_indicadores_tecnicos: the rows of one ticker                   *)
(***************************************************************************)
Niveles == <<"0.0%", "23.6%", "38.2%", "50.0%", "61.8%", "100%">>

RECURSIVE FMaxOf(_)
FMaxOf(s) == IF Len(s) = 1 THEN s[1]
             ELSE LET m == FMaxOf(Tail(s)) IN IF FGt(s[1], m) THEN s[1] ELSE m
RECURSIVE FMinOf(_)
FMinOf(s) == IF Len(s) = 1 THEN s[1]
             ELSE LET m == FMinOf(Tail(s)) IN IF FLt(s[1], m) THEN s[1] ELSE m

\* max_close - diff * 0.236, ..., in the order of Niveles
fib_levels(max_close, min_close, dif) ==
    <<max_close,
      FSub(max_close, FDivInt(FMulInt(dif, 236), 1000)),
      FSub(max_close, FDivInt(FMulInt(dif, 382), 1000)),
      FSub(max_close, FDivInt(FMulInt(dif, 50), 100)),
      FSub(max_close, FDivInt(FMulInt(dif, 618), 1000)),
      min_close>>

fib_rango(max_close, min_close) ==
    fib_levels(max_close, min_close, FSub(max_close, min_close))

\* mutant: the levels taken from the lowest close down to the highest
niveles_fib_invertido(close) == fib_rango(FMinOf(close), FMaxOf(close))

niveles_fib(close) == fib_rango(FMaxOf(close), FMinOf(close))

\* mutant: the last of the nearest levels wins a tie
RECURSIVE min_key_ultimo(_, _, _)
min_key_ultimo(d, i, best) ==
    IF i > Len(d) THEN best
    ELSE min_key_ultimo(d, i + 1, IF FLe(d[i], d[best]) THEN i ELSE best)

\* min(diffs, key=diffs.get): the first key, in insertion order, that no
\* other key undercuts
RECURSIVE min_key(_, _, _)
min_key(d, i, best) ==
    IF i > Len(d) THEN best
    ELSE min_key(d, i + 1, IF FLt(d[i], d[best]) THEN i ELSE best)

nivel_cercano(ultimo_close, fib) ==
    Niveles[min_key([k \in 1..6 |-> FAbs(FSub(ultimo_close, fib[k]))], 2, 1)]

estado_fib(nivel) ==
    IF nivel \in {"38.2%", "50.0%", "61.8%"} THEN "SOPORTE"
    ELSE IF nivel \in {"0.0%", "23.6%"} THEN "RESISTENCIA"
    ELSE "NEUTRO"

VentanaRSI == 14

\* the body of the loop over df.groupby('Ticker'): group holds the rows of
\* one ticker, sorted by date
\* mutant: the nearest level taken from the close of each row
indicadores_filas_por_fila(group, close, col, nivel) ==
    [i \in 1..Len(group) |->
        [Date |-> group[i].Date, Ticker |-> group[i].Ticker, Close |-> close[i],
         SMA_20 |-> col.sma_20[i], SMA_50 |-> col.sma_50[i], EMA_20 |-> col.ema_20[i],
         RSI_14 |-> col.rsi_14[i],
         MACD |-> col.macd.macd[i], MACD_Signal |-> col.macd.macd_signal[i],
         MACD_Hist |-> col.macd.macd_hist[i],
         ATR_14 |-> col.atr_14[i], OBV |-> col.obv[i],
         BB_Middle |-> col.sma_20[i],
         BB_Upper |-> Banda(col.sma_20[i], 2, col.std_20[i]),
         BB_Lower |-> Banda(col.sma_20[i], -2, col.std_20[i]),
         Volatility_20 |-> col.std_20[i],
         Fib_0_0 |-> col.fib[1], Fib_23_6 |-> col.fib[2], Fib_38_2 |-> col.fib[3],
         Fib_50_0 |-> col.fib[4], Fib_61_8 |-> col.fib[5], Fib_100 |-> col.fib[6],
         Nivel_Fib_Cercano |-> nivel_cercano(close[i], col.fib),
         Estado_Fibonacci |-> estado_fib(nivel_cercano(close[i], col.fib))]]

indicadores_filas(group, close, col, nivel) ==
    [i \in 1..Len(group) |->
        [Date |-> group[i].Date, Ticker |-> group[i].Ticker, Close |-> close[i],
         SMA_20 |-> col.sma_20[i], SMA_50 |-> col.sma_50[i], EMA_20 |-> col.ema_20[i],
         RSI_14 |-> col.rsi_14[i],
         MACD |-> col.macd.macd[i], MACD_Signal |-> col.macd.macd_signal[i],
         MACD_Hist |-> col.macd.macd_hist[i],
         ATR_14 |-> col.atr_14[i], OBV |-> col.obv[i],
         BB_Middle |-> col.sma_20[i],
         BB_Upper |-> Banda(col.sma_20[i], 2, col.std_20[i]),
         BB_Lower |-> Banda(col.sma_20[i], -2, col.std_20[i]),
         Volatility_20 |-> col.std_20[i],
         Fib_0_0 |-> col.fib[1], Fib_23_6 |-> col.fib[2], Fib_38_2 |-> col.fib[3],
         Fib_50_0 |-> col.fib[4], Fib_61_8 |-> col.fib[5], Fib_100 |-> col.fib[6],
         Nivel_Fib_Cercano |-> nivel, Estado_Fibonacci |-> estado_fib(nivel)]]

\* the series computed from a ticker's rows
indicadores_columnas(group, close) ==
    [sma_20 |-> rolling_mean(close, 20),
     sma_50 |-> rolling_mean(close, 50),
     ema_20 |-> ewm_mean(close, 20),
     rsi_14 |-> calcular_rsi(close, VentanaRSI),
     macd   |-> calcular_macd(close, 12, 26, 9),
     atr_14 |-> calcular_atr(Col(group, "High"), Col(group, "Low"), close, 14),
     obv    |-> calcular_obv(close, Col(group, "Volume")),
     std_20 |-> rolling_std(close, 20),
     fib    |-> niveles_fib(close)]

indicadores_close(group, close, col) ==
    indicadores_filas(group, close, col, nivel_cercano(close[Len(close)], col.fib))

indicadores_grupo(group) ==
    indicadores_close(group, Col(group, "Close"),
                      indicadores_columnas(group, Col(group, "Close")))

\* mutant: the series of a ticker continue those of the tickers before it
RECURSIVE indicadores_desde_arrastrando(_, _)
indicadores_desde_arrastrando(df, k) ==
    IF k > NT THEN <<>>
    ELSE (IF OfTicker(df, Tickers[k]) = <<>> THEN <<>>
          ELSE <<OfTicker(indicadores_grupo(Rows(df, {i \in 1..Len(df) :
                                                        TickerIdx(df[i].Ticker) <= k})),
                          Tickers[k])>>)
         \o indicadores_desde_arrastrando(df, k + 1)

\* the groups of df.groupby('Ticker'), in the order of the tickers, each
\* with its indicators
RECURSIVE indicadores_desde(_, _)
indicadores_desde(df, k) ==
    IF k > NT THEN <<>>
    ELSE (IF OfTicker(df, Tickers[k]) = <<>> THEN <<>>
          ELSE <<indicadores_grupo(OfTicker(df, Tickers[k]))>>)
         \o indicadores_desde(df, k + 1)

\* mutant: only the first group is kept
concat_primero(dfs) == dfs[1]

\* pd.concat(indicadores)
RECURSIVE concat(_)
concat(dfs) == IF dfs = <<>> THEN <<>> ELSE dfs[1] \o concat(Tail(dfs))

(***************************************************************************)
(* calcular_variaciones_precios                                            *)
(***************************************************************************)
periods == <<1, 5, 21, 252, 252 * 5>>   \* daily, weekly, monthly, annual, 5y

\* close.pct_change(periods=days): close / close.shift(days) - 1
pct_change(close, days) ==
    [i \in DOMAIN close |->
        IF i <= days THEN NaN
        ELSE FSub(FDiv(close[i], close[i - days]), NumInt(1))]

\* mutant: the change taken over the whole table, without grouping by ticker
var_columna_sin_grupo(df, days, i) ==
    FRound(pct_change(Col(df, "Close"), days)[i], 4)

\* df.groupby("Ticker")["Close"].pct_change(periods=days).round(4), at row i
\* of df, which is sorted by (Ticker, Date)
var_columna(df, days, i) ==
    LET antes == Cardinality({j \in 1..i : df[j].Ticker = df[i].Ticker})
        close == Col(OfTicker(df, df[i].Ticker), "Close")
    IN  FRound(pct_change(close, days)[antes], 4)

\* the table written to precios_variaciones_ready.csv
variaciones_precios(precios) ==
    LET df == SortRows(precios, ByTickerDate)
    IN  [i \in 1..Len(df) |->
            [Date |-> df[i].Date, Ticker |-> df[i].Ticker,
             Close |-> NumInt(df[i].Close),
             var_daily   |-> var_columna(df, periods[1], i),
             var_weekly  |-> var_columna(df, periods[2], i),
             var_monthly |-> var_columna(df, periods[3], i),
             var_annual  |-> var_columna(df, periods[4], i),
             var_5y      |-> var_columna(df, periods[5], i)]]

(***************************************************************************)
(* calcular_resumen_inversion: the signals of one joined row               *)
(***************************************************************************)
\* each signal is its label, or NA when the code adds no entry for it
senal_SMA_vs_EMA(row) ==
    IF notna(row.SMA_20) /\ notna(row.EMA_20)
    THEN (IF FGt(row.SMA_20, row.EMA_20) THEN "COMPRAR" ELSE "VENDER")
    ELSE NA

\* mutant: a MACD equal to its signal labelled COMPRAR
senal_MACD_empate_compra(row) ==
    IF notna(row.MACD) /\ notna(row.MACD_Signal)
    THEN (IF FGe(row.MACD, row.MACD_Signal) THEN "COMPRAR" ELSE "VENDER")
    ELSE NA

senal_MACD(row) ==
    IF notna(row.MACD) /\ notna(row.MACD_Signal)
    THEN (IF FGt(row.MACD, row.MACD_Signal) THEN "COMPRAR" ELSE "VENDER")
    ELSE NA

\* mutant: a null RSI counted as a HOLD vote
senal_RSI_nulo_mantener(row) ==
    IF notna(row.RSI_14)
    THEN (IF FLt(row.RSI_14, NumInt(30)) THEN "COMPRAR"
          ELSE IF FGt(row.RSI_14, NumInt(70)) THEN "VENDER"
          ELSE "MANTENER")
    ELSE "MANTENER"

senal_RSI(row) ==
    IF notna(row.RSI_14)
    THEN (IF FLt(row.RSI_14, NumInt(30)) THEN "COMPRAR"
          ELSE IF FGt(row.RSI_14, NumInt(70)) THEN "VENDER"
          ELSE "MANTENER")
    ELSE NA

senal_Estado_Fibonacci(row) ==
    IF row.Estado_Fibonacci # NA
    THEN (IF row.Estado_Fibonacci = "SOPORTE" THEN "COMPRAR"
          ELSE IF row.Estado_Fibonacci = "RESISTENCIA" THEN "VENDER"
          ELSE "MANTENER")
    ELSE NA

\* mutant: a close on a band counted as outside it
estado_bb_incluye_banda(row) ==
    IF notna(row.BB_Upper) /\ notna(row.BB_Lower) /\ notna(row.Close)
    THEN (IF FGe(row.Close, row.BB_Upper) THEN "Sobrecompra"
          ELSE IF FLe(row.Close, row.BB_Lower) THEN "Sobreventa"
          ELSE "Normal")
    ELSE NA

estado_bb(row) ==
    IF notna(row.BB_Upper) /\ notna(row.BB_Lower) /\ notna(row.Close)
    THEN (IF FGt(row.Close, row.BB_Upper) THEN "Sobrecompra"
          ELSE IF FLt(row.Close, row.BB_Lower) THEN "Sobreventa"
          ELSE "Normal")
    ELSE NA

senal_PER(row) ==
    IF notna(row.PER)
    THEN (IF FLt(row.PER, NumInt(20)) THEN "COMPRAR"
          ELSE IF FGt(row.PER, NumInt(30)) THEN "VENDER"
          ELSE "MANTENER")
    ELSE NA

senal_ROE(row) ==
    IF notna(row.ROE)
    THEN (IF FGt(row.ROE, Frac(15, 100)) THEN "COMPRAR"
          ELSE IF FLt(row.ROE, Frac(5, 100)) THEN "VENDER"
          ELSE "MANTENER")
    ELSE NA

senal_EPS_Growth_YoY(row) ==
    IF notna(row.EPS_Growth_YoY)
    THEN (IF FGt(row.EPS_Growth_YoY, Frac(10, 100)) THEN "COMPRAR"
          ELSE IF FLt(row.EPS_Growth_YoY, Zero) THEN "VENDER"
          ELSE "MANTENER")
    ELSE NA

\* mutant: the boundary value 100 labelled COMPRAR
senal_Deuda_Patrimonio_incluye_100(row) ==
    IF notna(row.Deuda_Patrimonio)
    THEN (IF FLe(row.Deuda_Patrimonio, NumInt(100)) THEN "COMPRAR"
          ELSE IF FGt(row.Deuda_Patrimonio, NumInt(200)) THEN "VENDER"
          ELSE "MANTENER")
    ELSE NA

senal_Deuda_Patrimonio(row) ==
    IF notna(row.Deuda_Patrimonio)
    THEN (IF FLt(row.Deuda_Patrimonio, NumInt(100)) THEN "COMPRAR"
          ELSE IF FGt(row.Deuda_Patrimonio, NumInt(200)) THEN "VENDER"
          ELSE "MANTENER")
    ELSE NA

\* a dict holding the entries of all that are not NA
Dict(all) == [n \in {m \in DOMAIN all : all[m] # NA} |-> all[n]]

\* d.get(key, np.nan)
Get(d, key) == IF key \in DOMAIN d THEN d[key] ELSE NA

\* list(d.values()).count(label)
Count(d, label) == Cardinality({n \in DOMAIN d : d[n] = label})

senales_tec(row) ==
    Dict([SMA_vs_EMA       |-> senal_SMA_vs_EMA(row),
          MACD             |-> senal_MACD(row),
          RSI              |-> senal_RSI(row),
          Estado_Fibonacci |-> senal_Estado_Fibonacci(row)])

senales_fund(row) ==
    Dict([PER              |-> senal_PER(row),
          ROE              |-> senal_ROE(row),
          EPS_Growth_YoY   |-> senal_EPS_Growth_YoY(row),
          Deuda_Patrimonio |-> senal_Deuda_Patrimonio(row)])

\* mutant: the percentage taken over the four signals of the group
pct_buy_sobre_cuatro(d) ==
    IF Cardinality(DOMAIN d) > 0
    THEN FRound(FMulInt(Frac(Count(d, "COMPRAR"), 4), 100), 2)
    ELSE NaN

\* round(count('COMPRAR') / len(d) * 100, 2) if len(d) > 0 else np.nan
pct_buy(d) ==
    IF Cardinality(DOMAIN d) > 0
    THEN FRound(FMulInt(Frac(Count(d, "COMPRAR"), Cardinality(DOMAIN d)), 100), 2)
    ELSE NaN

\* mutant: a tie decided as COMPRAR
decision_final_empate_compra(compras, ventas) ==
    IF compras >= ventas THEN "COMPRAR"
    ELSE IF ventas > compras THEN "VENDER"
    ELSE "MANTENER"

decision_final(compras, ventas) ==
    IF compras > ventas THEN "COMPRAR"
    ELSE IF ventas > compras THEN "VENDER"
    ELSE "MANTENER"

\* mutant: a MANTENER counted among the votes to sell
fila_decision_mantener_vende(row, tec, fund) ==
    [Ticker                |-> row.Ticker,
     pct_Tecnico_Buy       |-> pct_buy(tec),
     pct_Fundamental_Buy   |-> pct_buy(fund),
     Decision_Final        |-> decision_final(Count(tec, "COMPRAR") + Count(fund, "COMPRAR"),
                                              Count(tec, "VENDER") + Count(fund, "VENDER")
                                              + Count(tec, "MANTENER") + Count(fund, "MANTENER")),
     Estado_BollingerBands |-> estado_bb(row),
     SMA_vs_EMA            |-> Get(tec, "SMA_vs_EMA"),
     MACD                  |-> Get(tec, "MACD"),
     RSI                   |-> Get(tec, "RSI"),
     PER                   |-> Get(fund, "PER"),
     ROE                   |-> Get(fund, "ROE"),
     EPS_Growth_YoY        |-> Get(fund, "EPS_Growth_YoY"),
     Deuda_Patrimonio      |-> Get(fund, "Deuda_Patrimonio"),
     Estado_Fibonacci      |-> row.Estado_Fibonacci]

\* the body of the loop over the joined rows: one DecisionRow
fila_decision(row, tec, fund) ==
    [Ticker                |-> row.Ticker,
     pct_Tecnico_Buy       |-> pct_buy(tec),
     pct_Fundamental_Buy   |-> pct_buy(fund),
     Decision_Final        |-> decision_final(Count(tec, "COMPRAR") + Count(fund, "COMPRAR"),
                                              Count(tec, "VENDER") + Count(fund, "VENDER")),
     Estado_BollingerBands |-> estado_bb(row),
     SMA_vs_EMA            |-> Get(tec, "SMA_vs_EMA"),
     MACD                  |-> Get(tec, "MACD"),
     RSI                   |-> Get(tec, "RSI"),
     PER                   |-> Get(fund, "PER"),
     ROE                   |-> Get(fund, "ROE"),
     EPS_Growth_YoY        |-> Get(fund, "EPS_Growth_YoY"),
     Deuda_Patrimonio      |-> Get(fund, "Deuda_Patrimonio"),
     Estado_Fibonacci      |-> row.Estado_Fibonacci]

resumen_fila(row) == fila_decision(row, senales_tec(row), senales_fund(row))

\* the table written to resumen_inversion_ready.csv
resumen_inversion(df_tecnicos, df_fundamentales) ==
    LET df_ultimos_tecnicos == groupby_tail1(sort_values_Date(df_tecnicos))
        df == merge_inner(df_ultimos_tecnicos, df_fundamentales)
    IN  [i \in 1..Len(df) |-> resumen_fila(df[i])]

(***************************************************************************)
(* State: the files of data/clean_data and the position of the run         *)
(***************************************************************************)
VARIABLES
    precios_csv,        \* precios_historicos_ready.csv
    fundamentales_csv,  \* indicadores_fundamentales_ready.csv
    indicadores_csv,    \* indicadores_tecnicos_ready.csv
    resumen_csv,        \* resumen_inversion_ready.csv
    variaciones_csv,    \* precios_variaciones_ready.csv
    etapa,              \* the last step of the transformation that has run
    entrada,            \* the argument of a function applied on its own
    salida,             \* and its result
    raw_historicos,     \* data/raw_data/nyse_top500_data.csv
    raw_fundamentales,  \* data/raw_data/nyse_top_500_fundamentals_indicators.csv
    empresas_csv,       \* empresas_ready.csv
    bd,                 \* the tables of the PostgreSQL database
    hoy,                \* datetime.today().date()
    corridas            \* how many times main() has been started

archivos == <<precios_csv, fundamentales_csv, indicadores_csv, resumen_csv,
              variaciones_csv>>
externos == <<raw_historicos, raw_fundamentales, empresas_csv, bd, hoy, corridas>>
vars == <<archivos, etapa, entrada, salida, externos>>

\* the database before any load
BDVacia ==
    [empresas |-> {}, precios_historicos |-> {}, indicadores_fundamentales |-> {},
     indicadores_tecnicos |-> {}, resumen_inversion |-> {}, precios_variaciones |-> {}]

\* no raw file, no load and no clock: the transformation on its own
SinExternos ==
    /\ raw_historicos = <<>>
    /\ raw_fundamentales = <<>>
    /\ empresas_csv = <<>>
    /\ bd = BDVacia
    /\ hoy = 1
    /\ corridas = 0

MaxFechas == 3

(***************************************************************************)
(* Inputs of calcular_resumen_inversion.  The rows hold the columns the    *)
(* function reads.                                                         *)
(***************************************************************************)
Nums(S) == {NumInt(v) : v \in S}
Cents(S) == {Frac(v, 100) : v \in S}

\* pairs <<SMA_20, EMA_20>> and <<MACD, MACD_Signal>>: either side null,
\* greater, equal, less
SMAEMAVals == {<<NaN, NumInt(100)>>, <<NumInt(100), NaN>>, <<NumInt(105), NumInt(100)>>,
               <<NumInt(100), NumInt(100)>>, <<NumInt(100), NumInt(105)>>}
MACDVals   == {<<NaN, Zero>>, <<Zero, NaN>>, <<NumInt(1), Zero>>,
               <<Zero, Zero>>, <<Zero, NumInt(1)>>}
RSIVals   == {NaN} \cup Nums({29, 30, 70, 71})
FibVals   == {NA, "SOPORTE", "RESISTENCIA", "NEUTRO"}
PERVals   == {NaN} \cup Nums({19, 20, 30, 31})
ROEVals   == {NaN} \cup Cents({16, 15, 5, 4})
EPSVals   == {NaN} \cup Cents({11, 10, 0, -1})
DeudaVals == {NaN} \cup Nums({99, 100, 200, 201})

TecRow(t, d, sma, ema, rsi, macd, sig, fib) ==
    [Date |-> d, Ticker |-> t, Close |-> NumInt(100),
     SMA_20 |-> sma, EMA_20 |-> ema, RSI_14 |-> rsi,
     MACD |-> macd, MACD_Signal |-> sig,
     BB_Upper |-> NumInt(110), BB_Lower |-> NumInt(90),
     Estado_Fibonacci |-> fib]

FundRow(t, per, roe, eps, deuda) ==
    [Ticker |-> t, PER |-> per, ROE |-> roe, EPS_Growth_YoY |-> eps,
     Deuda_Patrimonio |-> deuda]

\* sample rows for the tables of several tickers and dates
TecMuestras(t, d) ==
    <<TecRow(t, d, NumInt(105), NumInt(100), NumInt(29), NumInt(1), Zero, "SOPORTE"),
      TecRow(t, d, NumInt(100), NumInt(105), NumInt(71), Zero, NumInt(1), "RESISTENCIA")>>

FundMuestras(t) ==
    <<FundRow(t, NumInt(19), Frac(16, 100), Frac(11, 100), NumInt(99)),
      FundRow(t, NumInt(31), NaN, Frac(-1, 100), NumInt(150))>>

SlotTicker(k) == Tickers[((k - 1) \div MaxFechas) + 1]
SlotDate(k) == ((k - 1) % MaxFechas) + 1

\* one ticker, one date, every combination of the values at the thresholds
InitSenales ==
    \E se \in SMAEMAVals, ms \in MACDVals,
       rsi \in RSIVals, fib \in FibVals,
       per \in PERVals, roe \in ROEVals, eps \in EPSVals, deuda \in DeudaVals :
        /\ indicadores_csv = <<TecRow(Tickers[1], 1, se[1], se[2], rsi, ms[1], ms[2], fib)>>
        /\ fundamentales_csv = <<FundRow(Tickers[1], per, roe, eps, deuda)>>

\* several tickers and dates: the indicator file is sorted by (Ticker, Date),
\* as calcular_indicadores_tecnicos writes it; at most one fundamentals row
\* per ticker
InitTablas ==
    \E c \in [1..(NT * MaxFechas) -> 0..2], f \in [1..NT -> 0..2] :
        /\ indicadores_csv =
              Rows([k \in 1..(NT * MaxFechas) |->
                        TecMuestras(SlotTicker(k), SlotDate(k))[IF c[k] = 0 THEN 1 ELSE c[k]]],
                   {k \in 1..(NT * MaxFechas) : c[k] # 0})
        /\ fundamentales_csv =
              Rows([k \in 1..NT |-> FundMuestras(Tickers[k])[IF f[k] = 0 THEN 1 ELSE f[k]]],
                   {k \in 1..NT : f[k] # 0})

InitResumen ==
    /\ InitSenales \/ InitTablas
    /\ precios_csv = <<>>
    /\ resumen_csv = <<>>
    /\ variaciones_csv = <<>>
    /\ etapa = "indicadores"
    /\ entrada = <<>>
    /\ salida = <<>>
    /\ SinExternos

\* df['X'] and row['X'] raise KeyError on a table without the column X, and
\* the series of a ticker cannot be computed over a cell that is not a
\* number: a row without the field X stands for both
Faltan(df, cols) == \E i \in DOMAIN df : ~(cols \subseteq DOMAIN df[i])

\* the columns that each function reads whatever the values
ColumnasPrecios == {"Date", "Ticker", "High", "Low", "Close", "Volume"}
ColumnasCierre == {"Date", "Ticker", "Close"}
ColumnasDecision ==
    {"Ticker", "SMA_20", "MACD", "RSI_14", "BB_Upper", "Estado_Fibonacci",
     "PER", "ROE", "EPS_Growth_YoY", "Deuda_Patrimonio"}

\* the rows of the loop of calcular_resumen_inversion
df_merge(df_tecnicos, df_fundamentales) ==
    merge_inner(groupby_tail1(sort_values_Date(df_tecnicos)), df_fundamentales)

calcular_resumen_inversion ==
    /\ etapa = "indicadores"
    /\ IF \/ Faltan(indicadores_csv, {"Date", "Ticker"})
          \/ Faltan(fundamentales_csv, {"Ticker"})
          \/ Faltan(precios_csv, ColumnasCierre)
          \/ Faltan(df_merge(indicadores_csv, fundamentales_csv), ColumnasDecision)
       THEN /\ etapa' = "error"
            /\ UNCHANGED resumen_csv
       ELSE /\ resumen_csv' = resumen_inversion(indicadores_csv, fundamentales_csv)
            /\ etapa' = "resumen"
    /\ UNCHANGED externos
    /\ UNCHANGED <<precios_csv, fundamentales_csv, indicadores_csv, variaciones_csv,
                   entrada, salida>>

NextResumen == calcular_resumen_inversion

SpecResumen == InitResumen /\ [][NextResumen]_vars

(***************************************************************************)
(* calcular_resumen_inversion on two tickers that differ in their close    *)
(* and bands only                                                          *)
(***************************************************************************)
\* <<Close, BB_Upper, BB_Lower>>: each one null, the close above, on, between,
\* on and below the bands
BandasVals ==
    {<<NaN, NumInt(110), NumInt(90)>>, <<NumInt(100), NaN, NumInt(90)>>,
     <<NumInt(100), NumInt(110), NaN>>, <<NumInt(111), NumInt(110), NumInt(90)>>,
     <<NumInt(110), NumInt(110), NumInt(90)>>, <<NumInt(100), NumInt(110), NumInt(90)>>,
     <<NumInt(90), NumInt(110), NumInt(90)>>, <<NumInt(89), NumInt(110), NumInt(90)>>}

ConBandas(row, b) == [row EXCEPT !.Close = b[1], !.BB_Upper = b[2], !.BB_Lower = b[3]]

InitBollinger ==
    /\ \E se \in SMAEMAVals, ms \in {<<NumInt(1), Zero>>, <<Zero, NumInt(1)>>},
          rsi \in {NaN} \cup Nums({29, 71}), fib \in {"SOPORTE", "RESISTENCIA"},
          f \in 1..2, ba \in BandasVals, bb \in BandasVals :
          /\ indicadores_csv =
                <<ConBandas(TecRow(Tickers[1], 1, se[1], se[2], rsi, ms[1], ms[2], fib), ba),
                  ConBandas(TecRow(Tickers[2], 1, se[1], se[2], rsi, ms[1], ms[2], fib), bb)>>
          /\ fundamentales_csv = [k \in 1..NT |-> FundMuestras(Tickers[k])[f]]
    /\ precios_csv = <<>>
    /\ resumen_csv = <<>>
    /\ variaciones_csv = <<>>
    /\ etapa = "indicadores"
    /\ entrada = <<>>
    /\ salida = <<>>
    /\ SinExternos

SpecBollinger == InitBollinger /\ [][NextResumen]_vars

(***************************************************************************)
(* calcular_resumen_inversion on one ticker whose every input is null or   *)
(* gives COMPRAR, MANTENER or VENDER                                       *)
(***************************************************************************)
InitMantener ==
    /\ \E se \in {<<NaN, NumInt(100)>>, <<NumInt(105), NumInt(100)>>, <<NumInt(100), NumInt(105)>>},
          ms \in {<<NaN, Zero>>, <<NumInt(1), Zero>>, <<Zero, NumInt(1)>>},
          rsi \in {NaN} \cup Nums({29, 30, 71}), fib \in FibVals,
          per \in {NaN} \cup Nums({19, 30, 31}), roe \in {NaN} \cup Cents({16, 5, 4}),
          eps \in {NaN} \cup Cents({11, 0, -1}), deuda \in {NaN} \cup Nums({99, 200, 201}) :
          /\ indicadores_csv = <<TecRow(Tickers[1], 1, se[1], se[2], rsi, ms[1], ms[2], fib)>>
          /\ fundamentales_csv = <<FundRow(Tickers[1], per, roe, eps, deuda)>>
    /\ precios_csv = <<>>
    /\ resumen_csv = <<>>
    /\ variaciones_csv = <<>>
    /\ etapa = "indicadores"
    /\ entrada = <<>>
    /\ salida = <<>>
    /\ SinExternos

SpecMantener == InitMantener /\ [][NextResumen]_vars

(***************************************************************************)
(* The transformation stage on a price file                                *)
(***************************************************************************)
MaxFilas == 3

\* price points: closes at 0, 0.4, 0.5 and 0.8 of a range, so that some
\* series of three has each Fibonacci level as its nearest one
Muestras ==
    <<[Open |-> 0, High |-> 1, Low |-> 0, Close |-> 0, Volume |-> 10],
      [Open |-> 3, High |-> 6, Low |-> 3, Close |-> 4, Volume |-> 20],
      [Open |-> 5, High |-> 5, Low |-> 5, Close |-> 5, Volume |-> 0],
      [Open |-> 7, High |-> 9, Low |-> 6, Close |-> 8, Volume |-> 30]>>

CeldaTicker(k) == Tickers[((k - 1) % NT) + 1]
CeldaDate(k) == ((k - 1) \div NT) + 1

\* the price file: at most MaxFilas rows, unique on (Date, Ticker), in the
\* order of the extraction (by date, then by ticker: ext.py:60,
\* ext_diario.py:50-53); the fundamentals file has a row for every ticker
InitTransform ==
    /\ \E c \in [1..(NT * MaxFilas) -> 0..Len(Muestras)] :
          /\ Cardinality({k \in DOMAIN c : c[k] # 0}) <= MaxFilas
          /\ precios_csv =
                Rows([k \in DOMAIN c |->
                         [Date |-> CeldaDate(k), Ticker |-> CeldaTicker(k)]
                         @@ Muestras[IF c[k] = 0 THEN 1 ELSE c[k]]],
                     {k \in DOMAIN c : c[k] # 0})
    /\ fundamentales_csv = [k \in 1..NT |-> FundMuestras(Tickers[k])[((k - 1) % 2) + 1]]
    /\ indicadores_csv = <<>>
    /\ resumen_csv = <<>>
    /\ variaciones_csv = <<>>
    /\ etapa = "precios"
    /\ entrada = <<>>
    /\ salida = <<>>
    /\ SinExternos

\* pd.concat raises ValueError ("No objects to concatenate") when the list
\* of groups is empty: the function ends there and writes no file
\* a variant that writes the rows of each ticker as soon as they are computed
calcular_indicadores_tecnicos_por_ticker ==
    /\ etapa = "precios"
    /\ IF Faltan(precios_csv, ColumnasPrecios)
       THEN /\ etapa' = "error"
            /\ indicadores_csv' =
                  concat(indicadores_desde(
                      SortRows(Rows(precios_csv,
                                    {i \in DOMAIN precios_csv :
                                        ~Faltan(OfTicker(precios_csv, precios_csv[i].Ticker),
                                                ColumnasPrecios)}),
                               ByTickerDate), 1))
       ELSE LET df          == SortRows(precios_csv, ByTickerDate)
                indicadores == indicadores_desde(df, 1)
            IN  IF indicadores = <<>>
                THEN /\ etapa' = "error"
                     /\ UNCHANGED indicadores_csv
                ELSE /\ indicadores_csv' = concat(indicadores)
                     /\ etapa' = "indicadores"
    /\ UNCHANGED externos
    /\ UNCHANGED <<precios_csv, fundamentales_csv, resumen_csv, variaciones_csv,
                   entrada, salida>>

calcular_indicadores_tecnicos ==
    /\ etapa = "precios"
    /\ IF Faltan(precios_csv, ColumnasPrecios)
       THEN /\ etapa' = "error"
            /\ UNCHANGED indicadores_csv
       ELSE LET df          == SortRows(precios_csv, ByTickerDate)
                indicadores == indicadores_desde(df, 1)
            IN  IF indicadores = <<>>
                THEN /\ etapa' = "error"
                     /\ UNCHANGED indicadores_csv
                ELSE /\ indicadores_csv' = concat(indicadores)
                     /\ etapa' = "indicadores"
    /\ UNCHANGED externos
    /\ UNCHANGED <<precios_csv, fundamentales_csv, resumen_csv, variaciones_csv,
                   entrada, salida>>

calcular_variaciones_precios ==
    /\ etapa = "resumen"
    /\ IF Faltan(precios_csv, ColumnasCierre)
       THEN /\ etapa' = "error"
            /\ UNCHANGED variaciones_csv
       ELSE /\ variaciones_csv' = variaciones_precios(precios_csv)
            /\ etapa' = "variaciones"
    /\ UNCHANGED externos
    /\ UNCHANGED <<precios_csv, fundamentales_csv, indicadores_csv, resumen_csv,
                   entrada, salida>>

NextTransform ==
    \/ calcular_indicadores_tecnicos
    \/ calcular_resumen_inversion
    \/ calcular_variaciones_precios

SpecTransform == InitTransform /\ [][NextTransform]_vars

(***************************************************************************)
(* calcular_indicadores_tecnicos on a price file whose rows are in the     *)
(* order of the extraction or in the opposite order                        *)
(***************************************************************************)
Invertido(df) == [i \in 1..Len(df) |-> df[Len(df) + 1 - i]]

InitPermutado ==
    /\ \E c \in [1..(NT * MaxFilas) -> 0..Len(Muestras)], invertir \in BOOLEAN :
          /\ Cardinality({k \in DOMAIN c : c[k] # 0}) <= MaxFilas
          /\ precios_csv =
                (IF invertir THEN Invertido(
                     Rows([k \in DOMAIN c |->
                              [Date |-> CeldaDate(k), Ticker |-> CeldaTicker(k)]
                              @@ Muestras[IF c[k] = 0 THEN 1 ELSE c[k]]],
                          {k \in DOMAIN c : c[k] # 0}))
                 ELSE Rows([k \in DOMAIN c |->
                              [Date |-> CeldaDate(k), Ticker |-> CeldaTicker(k)]
                              @@ Muestras[IF c[k] = 0 THEN 1 ELSE c[k]]],
                          {k \in DOMAIN c : c[k] # 0}))
    /\ fundamentales_csv = [k \in 1..NT |-> FundMuestras(Tickers[k])[((k - 1) % 2) + 1]]
    /\ indicadores_csv = <<>>
    /\ resumen_csv = <<>>
    /\ variaciones_csv = <<>>
    /\ etapa = "precios"
    /\ entrada = <<>>
    /\ salida = <<>>
    /\ SinExternos

NextPermutado == calcular_indicadores_tecnicos

SpecPermutado == InitPermutado /\ [][NextPermutado]_vars

(***************************************************************************)
(* calcular_indicadores_tecnicos run a second time on the same price file  *)
(***************************************************************************)
\* mutant: the second run appends its rows to the file it finds
repetir_anexando ==
    /\ etapa \in {"indicadores", "error"}
    /\ salida' = indicadores_csv
    /\ LET df          == SortRows(precios_csv, ByTickerDate)
           indicadores == indicadores_desde(df, 1)
       IN  IF indicadores = <<>>
           THEN /\ etapa' = "error repetido"
                /\ UNCHANGED indicadores_csv
           ELSE /\ indicadores_csv' = indicadores_csv \o concat(indicadores)
                /\ etapa' = "repetido"
    /\ UNCHANGED externos
    /\ UNCHANGED <<precios_csv, fundamentales_csv, resumen_csv, variaciones_csv, entrada>>

\* the second call: it reads the price file again and, unless pd.concat
\* raises, overwrites the indicator file (to_csv); salida keeps what the
\* first call left in the file
repetir_calcular_indicadores_tecnicos ==
    /\ etapa \in {"indicadores", "error"}
    /\ salida' = indicadores_csv
    /\ LET df          == SortRows(precios_csv, ByTickerDate)
           indicadores == indicadores_desde(df, 1)
       IN  IF indicadores = <<>>
           THEN /\ etapa' = "error repetido"
                /\ UNCHANGED indicadores_csv
           ELSE /\ indicadores_csv' = concat(indicadores)
                /\ etapa' = "repetido"
    /\ UNCHANGED externos
    /\ UNCHANGED <<precios_csv, fundamentales_csv, resumen_csv, variaciones_csv, entrada>>

NextRepetir ==
    \/ calcular_indicadores_tecnicos
    \/ repetir_calcular_indicadores_tecnicos

SpecRepetir == InitTransform /\ [][NextRepetir]_vars

(***************************************************************************)
(* calcular_rsi applied to a series of closes                              *)
(***************************************************************************)
MaxLargo == 16
MaxValor == 3

\* closes that change at most twice: v0 up to row p1 - 1, v1 up to p2 - 1, v2
SerieEscalonada(n, v0, p1, v1, p2, v2) ==
    [i \in 1..n |-> IF i < p1 THEN v0 ELSE IF i < p2 THEN v1 ELSE v2]

InitRSI ==
    /\ \E n \in 0..MaxLargo, v0 \in 1..MaxValor, v1 \in 1..MaxValor, v2 \in 1..MaxValor :
          \E p1 \in 1..(n + 1) : \E p2 \in p1..(n + 1) :
              entrada = SerieEscalonada(n, v0, p1, v1, p2, v2)
    /\ salida = <<>>
    /\ SinExternos
    /\ etapa = "serie"
    /\ precios_csv = <<>>
    /\ fundamentales_csv = <<>>
    /\ indicadores_csv = <<>>
    /\ resumen_csv = <<>>
    /\ variaciones_csv = <<>>

aplicar_calcular_rsi ==
    /\ etapa = "serie"
    /\ salida' = calcular_rsi([i \in DOMAIN entrada |-> NumInt(entrada[i])], VentanaRSI)
    /\ etapa' = "rsi"
    /\ UNCHANGED externos
    /\ UNCHANGED <<archivos, entrada>>

NextRSI == aplicar_calcular_rsi

SpecRSI == InitRSI /\ [][NextRSI]_vars

(***************************************************************************)
(* calcular_atr applied to the candles of one ticker                       *)
(***************************************************************************)
VentanaATR == 14

\* the candle of a price level v: it closes one above its low and one below
\* its high, so that a change of level opens a gap to the previous close
Vela(v) == [High |-> 10 * v + 2, Low |-> 10 * v, Close |-> 10 * v + 1]

InitATR ==
    /\ \E n \in 0..MaxLargo, v0 \in 1..MaxValor, v1 \in 1..MaxValor, v2 \in 1..MaxValor :
          \E p1 \in 1..(n + 1) : \E p2 \in p1..(n + 1) :
              entrada = [i \in 1..n |-> Vela(SerieEscalonada(n, v0, p1, v1, p2, v2)[i])]
    /\ salida = <<>>
    /\ SinExternos
    /\ etapa = "velas"
    /\ precios_csv = <<>>
    /\ fundamentales_csv = <<>>
    /\ indicadores_csv = <<>>
    /\ resumen_csv = <<>>
    /\ variaciones_csv = <<>>

aplicar_calcular_atr ==
    /\ etapa = "velas"
    /\ salida' = calcular_atr(Col(entrada, "High"), Col(entrada, "Low"),
                              Col(entrada, "Close"), VentanaATR)
    /\ etapa' = "atr"
    /\ UNCHANGED externos
    /\ UNCHANGED <<archivos, entrada>>

NextATR == aplicar_calcular_atr

SpecATR == InitATR /\ [][NextATR]_vars

(***************************************************************************)
(* calcular_variaciones_precios applied to a price file of two tickers     *)
(***************************************************************************)
MaxDias == 7

\* closes of the first ticker: 100, 110, 121 and then others
Cierre(v) == IF v = 1 THEN 100 ELSE IF v = 2 THEN 110 ELSE IF v = 3 THEN 121 ELSE 90 + v
\* closes of the second ticker, which has at most two dates
OtroCierre(d) == IF d = 1 THEN 110 ELSE 100

\* the columns the function reads of a price file in the order of the
\* extraction (by date, then by ticker): n dates of the first ticker, whose
\* closes change at most twice, and m dates of the second
ArchivoPrecios(n, m, serie) ==
    Rows([k \in 1..(NT * MaxDias) |->
             [Date |-> CeldaDate(k), Ticker |-> CeldaTicker(k),
              Close |-> IF CeldaTicker(k) = Tickers[1]
                        THEN Cierre(serie[IF CeldaDate(k) <= n THEN CeldaDate(k) ELSE 1])
                        ELSE OtroCierre(CeldaDate(k))]],
         {k \in 1..(NT * MaxDias) :
             CeldaDate(k) <= (IF CeldaTicker(k) = Tickers[1] THEN n ELSE m)})

InitVariaciones ==
    /\ \E n \in 1..MaxDias, m \in 0..2,
          v0 \in 1..MaxValor, v1 \in 1..MaxValor, v2 \in 1..MaxValor :
          \E p1 \in 1..(n + 1) : \E p2 \in p1..(n + 1) :
              entrada = ArchivoPrecios(n, m, SerieEscalonada(n, v0, p1, v1, p2, v2))
    /\ salida = <<>>
    /\ SinExternos
    /\ etapa = "cierres"
    /\ precios_csv = <<>>
    /\ fundamentales_csv = <<>>
    /\ indicadores_csv = <<>>
    /\ resumen_csv = <<>>
    /\ variaciones_csv = <<>>

aplicar_calcular_variaciones_precios ==
    /\ etapa = "cierres"
    /\ salida' = variaciones_precios(entrada)
    /\ etapa' = "variaciones"
    /\ UNCHANGED externos
    /\ UNCHANGED <<archivos, entrada>>

NextVariaciones == aplicar_calcular_variaciones_precios

SpecVariaciones == InitVariaciones /\ [][NextVariaciones]_vars

(***************************************************************************)
(* calcular_indicadores_tecnicos on a price file in which one ticker has   *)
(* as many dates as the window of SMA_20                                   *)
(***************************************************************************)
VentanaSMA == 20
MaxCola == 2

\* the price point of a level v
Punto(v) == [Open |-> 10 * v, Volume |-> 10] @@ Vela(v)

\* n dates of the ticker largo, with the levels of serie, and m dates of the
\* other ticker, in the order of the extraction
ArchivoLargo(largo, n, m, serie) ==
    Rows([k \in 1..(NT * n) |->
             [Date |-> CeldaDate(k), Ticker |-> CeldaTicker(k)]
             @@ Punto(IF CeldaTicker(k) = largo THEN serie[CeldaDate(k)] ELSE MaxValor)],
         {k \in 1..(NT * n) : CeldaTicker(k) = largo \/ CeldaDate(k) <= m})

\* the long ticker has one date less than the window, or up to MaxCola - 1
\* more; its level changes after the first date and near the last
InitVentana ==
    /\ \E largo \in Range(Tickers), n \in (VentanaSMA - 1)..(VentanaSMA - 1 + MaxCola),
          m \in 0..1, v0 \in 1..2, v1 \in 1..2, v2 \in 1..2 :
          \E p2 \in n..(n + 1) :
              precios_csv = ArchivoLargo(largo, n, m, SerieEscalonada(n, v0, 2, v1, p2, v2))
    /\ fundamentales_csv = [k \in 1..NT |-> FundMuestras(Tickers[k])[((k - 1) % 2) + 1]]
    /\ indicadores_csv = <<>>
    /\ resumen_csv = <<>>
    /\ variaciones_csv = <<>>
    /\ etapa = "precios"
    /\ entrada = <<>>
    /\ salida = <<>>
    /\ SinExternos

NextVentana == calcular_indicadores_tecnicos

SpecVentana == InitVentana /\ [][NextVentana]_vars

(***************************************************************************)
(* The whole pipeline: extraction, transformation and load, day after day  *)
(***************************************************************************)
MaxHoy == 2
MaxCorridas == 2

\* between two runs: before the first, after a complete one, after one that
\* raised
Reposo == {"reposo", "fin", "error"}

\* the price point that a download made on the day dia gives for a date and
\* a ticker
Cotizacion(d, t, dia) == Muestras[((d + TickerIdx(t) + dia) % Len(Muestras)) + 1]

\* yf.download(...).stack(level=0).rename_axis(['Date', 'Ticker']).reset_index():
\* one row for every date from desde to hasta and every ticker for which
\* the download has data, by date and then by ticker
descarga(desde, hasta, presentes, dia) ==
    Rows([k \in 1..(NT * hasta) |->
             [Date |-> CeldaDate(k), Ticker |-> CeldaTicker(k)]
             @@ Cotizacion(CeldaDate(k), CeldaTicker(k), dia)],
         {k \in 1..(NT * hasta) :
             CeldaDate(k) >= desde /\ CeldaTicker(k) \in presentes})

\* the tickers for which a download has data: the first n of the list
Primeros(n) == {Tickers[k] : k \in 1..n}

\* ext.py: the whole history, from the first date up to the day before today
descargar_datos_historicos ==
    /\ etapa \in Reposo
    /\ hoy > 1
    /\ \E n \in 1..NT :
          raw_historicos' = descarga(1, hoy - 1, Primeros(n), hoy)
    /\ UNCHANGED <<archivos, etapa, entrada, salida, raw_fundamentales, empresas_csv, bd, hoy, corridas>>

\* historico_df["Date"].max()
ultima_fecha(df) == CHOOSE d \in {df[i].Date : i \in DOMAIN df} : \A i \in DOMAIN df : df[i].Date <= d

\* a download that starts again on the last date of the file
fecha_inicio_misma(ultima) == ultima

\* ultima_fecha + timedelta(days=1)
fecha_inicio(ultima) == ultima + 1

\* df.drop_duplicates(subset=["Date", "Ticker"], keep="last")
drop_duplicates_keep_last(df) ==
    Rows(df, {i \in 1..Len(df) :
                 \A j \in (i + 1)..Len(df) :
                     ~(df[j].Date = df[i].Date /\ df[j].Ticker = df[i].Ticker)})

\* the first step of main(): the file is left as it is when it does not
\* exist, when it reaches today or when the download is empty
actualizar_datos_historicos ==
    /\ etapa \in Reposo
    /\ corridas < MaxCorridas
    /\ corridas' = corridas + 1
    /\ etapa' = "historicos"
    /\ IF raw_historicos = <<>> THEN UNCHANGED raw_historicos
       ELSE IF fecha_inicio(ultima_fecha(raw_historicos)) > hoy THEN UNCHANGED raw_historicos
       ELSE \E n \in 0..NT :
               IF n = 0 THEN UNCHANGED raw_historicos
               ELSE raw_historicos' =
                       drop_duplicates_keep_last(
                           raw_historicos
                           \o descarga(fecha_inicio(ultima_fecha(raw_historicos)), hoy,
                                       Primeros(n), hoy))
    /\ UNCHANGED <<archivos, entrada, salida, raw_fundamentales, empresas_csv, bd, hoy>>

\* one row for every ticker whose yf.Ticker(ticker).info did not raise: here
\* the first ultimo tickers of the list
actualizar_fundamentales ==
    /\ etapa = "historicos"
    /\ etapa' = "extraccion"
    /\ \E ultimo \in 0..NT :
          raw_fundamentales' = Rows([k \in 1..NT |-> FundMuestras(Tickers[k])[((k - 1) % 2) + 1]],
                                    1..ultimo)
    /\ UNCHANGED <<archivos, entrada, salida, raw_historicos, empresas_csv, bd, hoy, corridas>>

\* data/raw_data/top_500_marketcap.csv
top_500_marketcap ==
    [k \in 1..NT |-> [Ticker |-> Tickers[k], Name |-> Tickers[k], Sector |-> "sector",
                      Industry |-> "industry", MarketCap |-> NT - k]]

Columnas(df, cols) == [i \in 1..Len(df) |-> [c \in cols |-> df[i][c]]]

transformar_empresas ==
    /\ etapa = "extraccion"
    /\ etapa' = "empresas"
    /\ empresas_csv' = Columnas(top_500_marketcap, {"Ticker", "Name", "Sector", "Industry"})
    /\ UNCHANGED <<archivos, entrada, salida, raw_historicos, raw_fundamentales, bd, hoy, corridas>>

\* pd.read_csv raises FileNotFoundError when the raw file does not exist;
\* .round(3) leaves the prices of Muestras, which are whole numbers, as they
\* are
transformar_precios_historicos ==
    /\ etapa = "empresas"
    /\ IF raw_historicos = <<>>
       THEN /\ etapa' = "error"
            /\ UNCHANGED precios_csv
       ELSE /\ etapa' = "precios listos"
            /\ precios_csv' = Columnas(raw_historicos, {"Date", "Ticker", "Open", "High", "Low",
                                                        "Close", "Volume"})
    /\ UNCHANGED <<fundamentales_csv, indicadores_csv, resumen_csv, variaciones_csv,
                   entrada, salida, externos>>

\* pd.read_csv raises EmptyDataError on the file of a DataFrame without rows
\* or columns
\* (the columns that calcular_resumen_inversion does not read, and the rank
\* of Market Cap, are left out)
transformar_indicadores_fundamentales ==
    /\ etapa = "precios listos"
    /\ IF raw_fundamentales = <<>>
       THEN /\ etapa' = "error"
            /\ UNCHANGED fundamentales_csv
       ELSE /\ etapa' = "precios"
            /\ fundamentales_csv' = Columnas(raw_fundamentales,
                                             {"Ticker", "PER", "ROE", "EPS_Growth_YoY",
                                              "Deuda_Patrimonio"})
    /\ UNCHANGED <<precios_csv, indicadores_csv, resumen_csv, variaciones_csv,
                   entrada, salida, externos>>

(***************************************************************************)
(* load.py                                                                 *)
(***************************************************************************)
\* the natural key of a row: (date, ticker), or the ticker
Clave(r) == IF "Date" \in DOMAIN r THEN <<r.Date, r.Ticker>> ELSE <<r.Ticker>>

\* INSERT ... ON CONFLICT (key) DO UPDATE SET every column = EXCLUDED
on_conflict_do_update(tabla, fila) == {r \in tabla : Clave(r) # Clave(fila)} \cup {fila}

\* INSERT ... ON CONFLICT (date, ticker) DO NOTHING
on_conflict_do_nothing(tabla, fila) ==
    IF \E r \in tabla : Clave(r) = Clave(fila) THEN tabla ELSE tabla \cup {fila}

\* for _, row in df.iterrows(): cursor.execute(insert_query, row)
RECURSIVE insertar_actualizando(_, _, _)
insertar_actualizando(tabla, df, i) ==
    IF i > Len(df) THEN tabla
    ELSE insertar_actualizando(on_conflict_do_update(tabla, df[i]), df, i + 1)

RECURSIVE insertar_sin_pisar(_, _, _)
insertar_sin_pisar(tabla, df, i) ==
    IF i > Len(df) THEN tabla
    ELSE insertar_sin_pisar(on_conflict_do_nothing(tabla, df[i]), df, i + 1)

\* SELECT MAX(date) FROM tabla: None, here 0, on a table without rows
None == 0
max_date(tabla) ==
    IF tabla = {} THEN None
    ELSE CHOOSE d \in {r.Date : r \in tabla} : \A r \in tabla : r.Date <= d

\* a filter that also lets through the rows of the table's last date
posteriores_desde(df, max_date_db) ==
    IF max_date_db # None THEN Rows(df, {i \in 1..Len(df) : df[i].Date >= max_date_db})
    ELSE df

\* df[df['Date'] > max_date_db] when max_date_db is not None
posteriores(df, max_date_db) ==
    IF max_date_db # None THEN Rows(df, {i \in 1..Len(df) : df[i].Date > max_date_db})
    ELSE df

\* a load that also starts after a step of the run has raised
upsert_empresas_tras_error ==
    /\ etapa \in {"variaciones", "error"}
    /\ etapa' = "carga empresas"
    /\ bd' = [bd EXCEPT !.empresas = insertar_actualizando(@, empresas_csv, 1)]
    /\ UNCHANGED <<archivos, entrada, salida, raw_historicos, raw_fundamentales,
                   empresas_csv, hoy, corridas>>

upsert_empresas ==
    /\ etapa = "variaciones"
    /\ etapa' = "carga empresas"
    /\ bd' = [bd EXCEPT !.empresas = insertar_actualizando(@, empresas_csv, 1)]
    /\ UNCHANGED <<archivos, entrada, salida, raw_historicos, raw_fundamentales,
                   empresas_csv, hoy, corridas>>

upsert_precios_historicos ==
    /\ etapa = "carga empresas"
    /\ etapa' = "carga precios"
    /\ bd' = [bd EXCEPT !.precios_historicos =
                  insertar_sin_pisar(@, posteriores(precios_csv, max_date(@)), 1)]
    /\ UNCHANGED <<archivos, entrada, salida, raw_historicos, raw_fundamentales,
                   empresas_csv, hoy, corridas>>

upsert_fundamentales ==
    /\ etapa = "carga precios"
    /\ etapa' = "carga fundamentales"
    /\ bd' = [bd EXCEPT !.indicadores_fundamentales =
                  insertar_actualizando(@, fundamentales_csv, 1)]
    /\ UNCHANGED <<archivos, entrada, salida, raw_historicos, raw_fundamentales,
                   empresas_csv, hoy, corridas>>

upsert_indicadores_tecnicos ==
    /\ etapa = "carga fundamentales"
    /\ etapa' = "carga indicadores"
    /\ bd' = [bd EXCEPT !.indicadores_tecnicos =
                  insertar_actualizando(@, posteriores(indicadores_csv, max_date(@)), 1)]
    /\ UNCHANGED <<archivos, entrada, salida, raw_historicos, raw_fundamentales,
                   empresas_csv, hoy, corridas>>

\* the file of a decision table without rows has no columns, and pd.read_csv
\* raises EmptyDataError on it
upsert_resumen_inversion ==
    /\ etapa = "carga indicadores"
    /\ IF resumen_csv = <<>>
       THEN /\ etapa' = "error"
            /\ UNCHANGED bd
       ELSE /\ etapa' = "carga resumen"
            /\ bd' = [bd EXCEPT !.resumen_inversion = insertar_actualizando(@, resumen_csv, 1)]
    /\ UNCHANGED <<archivos, entrada, salida, raw_historicos, raw_fundamentales,
                   empresas_csv, hoy, corridas>>

upsert_precios_variaciones ==
    /\ etapa = "carga resumen"
    /\ etapa' = "fin"
    /\ bd' = [bd EXCEPT !.precios_variaciones =
                  insertar_actualizando(@, posteriores(variaciones_csv, max_date(@)), 1)]
    /\ UNCHANGED <<archivos, entrada, salida, raw_historicos, raw_fundamentales,
                   empresas_csv, hoy, corridas>>

\* the clock
pasa_un_dia ==
    /\ etapa \in Reposo
    /\ hoy < MaxHoy
    /\ hoy' = hoy + 1
    /\ UNCHANGED <<archivos, etapa, entrada, salida, raw_historicos, raw_fundamentales,
                   empresas_csv, bd, corridas>>

\* a fresh checkout: no file, an empty database
InitPipeline ==
    /\ precios_csv = <<>>
    /\ fundamentales_csv = <<>>
    /\ indicadores_csv = <<>>
    /\ resumen_csv = <<>>
    /\ variaciones_csv = <<>>
    /\ etapa = "reposo"
    /\ entrada = <<>>
    /\ salida = <<>>
    /\ raw_historicos = <<>>
    /\ raw_fundamentales = <<>>
    /\ empresas_csv = <<>>
    /\ bd = BDVacia
    /\ hoy = 1
    /\ corridas = 0

\* main(), step by step
main ==
    \/ actualizar_datos_historicos
    \/ actualizar_fundamentales
    \/ transformar_empresas
    \/ transformar_precios_historicos
    \/ transformar_indicadores_fundamentales
    \/ calcular_indicadores_tecnicos
    \/ calcular_resumen_inversion
    \/ calcular_variaciones_precios
    \/ upsert_empresas
    \/ upsert_precios_historicos
    \/ upsert_fundamentales
    \/ upsert_indicadores_tecnicos
    \/ upsert_resumen_inversion
    \/ upsert_precios_variaciones

NextPipeline ==
    \/ main
    \/ descargar_datos_historicos
    \/ pasa_un_dia

SpecPipeline == InitPipeline /\ [][NextPipeline]_vars

(***************************************************************************)
(* Each core transform called on its own over files that may lack a        *)
(* column, in every row or in the rows of some tickers, the outputs of an  *)
(* earlier run being in place                                              *)
(***************************************************************************)
\* the table without the columns cols in the rows of the tickers ts
Sin(df, cols, ts) ==
    [i \in DOMAIN df |->
        IF df[i].Ticker \in ts THEN [c \in (DOMAIN df[i]) \ cols |-> df[i][c]] ELSE df[i]]

\* a price file of two dates for every ticker, as downloaded on the day dia
PreciosDelDia(dia) == descarga(1, 2, Range(Tickers), dia)

FundamentalesCompletos == [k \in 1..NT |-> FundMuestras(Tickers[k])[((k - 1) % 2) + 1]]

\* the indicator file written by an earlier run
IndicadoresAnteriores ==
    concat(indicadores_desde(SortRows(PreciosDelDia(1), ByTickerDate), 1))

InitFalla ==
    /\ \E dia \in 1..MaxHoy, col \in {"Close", "High", "Volume"}, ts \in SUBSET Range(Tickers) :
          precios_csv = Sin(PreciosDelDia(dia), {col}, ts)
    /\ \E col \in {"PER", "ROE"}, ts \in SUBSET Range(Tickers) :
          fundamentales_csv = Sin(FundamentalesCompletos, {col}, ts)
    /\ \E col \in {"RSI_14", "Estado_Fibonacci"}, ts \in {{}, Range(Tickers)} :
          indicadores_csv = Sin(IndicadoresAnteriores, {col}, ts)
    /\ resumen_csv = resumen_inversion(IndicadoresAnteriores, FundamentalesCompletos)
    /\ variaciones_csv = variaciones_precios(PreciosDelDia(1))
    /\ etapa \in {"precios", "indicadores", "resumen"}
    /\ entrada = <<>>
    /\ salida = <<>>
    /\ SinExternos

SpecFalla == InitFalla /\ [][NextTransform]_vars

(***************************************************************************)
(* Claims about calcular_resumen_inversion                                 *)
(***************************************************************************)
CountSeq(sq, v) == Cardinality({i \in DOMAIN sq : sq[i] = v})

\* the indicator row of ticker t with the greatest date, and its fundamentals
UltimaFila(t) ==
    CHOOSE r \in Range(indicadores_csv) :
        /\ r.Ticker = t
        /\ \A q \in Range(indicadores_csv) : q.Ticker = t => q.Date <= r.Date
FundDe(t) == CHOOSE f \in Range(fundamentales_csv) : f.Ticker = t
Entrada(t) == UltimaFila(t) @@ FundDe(t)

\* the vote the spec's table gives to a Fibonacci state
VotoFib(estado) ==
    CASE estado = "SOPORTE"     -> "COMPRAR"
      [] estado = "RESISTENCIA" -> "VENDER"
      [] estado = NA            -> NA
      [] OTHER                  -> "MANTENER"

VotosTec(out) == <<out.SMA_vs_EMA, out.MACD, out.RSI, VotoFib(out.Estado_Fibonacci)>>
VotosFund(out) == <<out.PER, out.ROE, out.EPS_Growth_YoY, out.Deuda_Patrimonio>>

\* x is v rounded to 2 decimals: a multiple of 0.01 at most 0.005 from v
Redondeado2(x, v) ==
    /\ isfin(x)
    /\ (NatToInt(x.m) * 100) % BagProd(x.den) = 0
    /\ FLe(FAbs(FSub(x, v)), Frac(5, 1000))

\* x is the percentage of COMPRAR among n votes, b of them COMPRAR
EsPorcentaje(x, b, n) ==
    IF n = 0 THEN x = NaN ELSE Redondeado2(x, Frac(100 * b, n))

\* C1: Decision_Final is COMPRAR exactly when the COMPRAR labels of the row
\* outnumber its VENDER labels, VENDER exactly when the VENDER labels
\* outnumber the COMPRAR labels, and MANTENER otherwise (ties, only
\* MANTENER labels, no label at all); MANTENER labels count for neither side.
C1_DecisionPorMayoria ==
    etapa = "resumen" =>
        \A i \in DOMAIN resumen_csv :
            LET out     == resumen_csv[i]
                votos   == VotosTec(out) \o VotosFund(out)
                compras == CountSeq(votos, "COMPRAR")
                ventas  == CountSeq(votos, "VENDER")
            IN  /\ (out.Decision_Final = "COMPRAR") <=> (compras > ventas)
                /\ (out.Decision_Final = "VENDER") <=> (ventas > compras)
                /\ (out.Decision_Final = "MANTENER") <=> (compras = ventas)

\* all eight signals present and COMPRAR: the decision is COMPRAR
C1_Witness ==
    /\ etapa = "resumen"
    /\ \E i \in DOMAIN resumen_csv :
           /\ CountSeq(VotosTec(resumen_csv[i]) \o VotosFund(resumen_csv[i]), "COMPRAR") = 8
           /\ resumen_csv[i].Decision_Final = "COMPRAR"

\* the signals whose inputs are all present in the joined input row
TecPresentes(in) ==
    {n \in {"SMA_vs_EMA", "MACD", "RSI", "Estado_Fibonacci"} :
        CASE n = "SMA_vs_EMA" -> notna(in.SMA_20) /\ notna(in.EMA_20)
          [] n = "MACD"       -> notna(in.MACD) /\ notna(in.MACD_Signal)
          [] n = "RSI"        -> notna(in.RSI_14)
          [] OTHER            -> in.Estado_Fibonacci # NA}
FundPresentes(in) ==
    {n \in {"PER", "ROE", "EPS_Growth_YoY", "Deuda_Patrimonio"} : notna(in[n])}

\* C2: a signal with a null input is left out of the vote: its label in the
\* DecisionRow is null (not MANTENER), a signal whose inputs are present has
\* a label, and the buy percentage of each group is taken over the signals
\* of the group whose inputs are present, not over the whole group.
C2_GatingPorPresencia ==
    etapa = "resumen" =>
        \A i \in DOMAIN resumen_csv :
            LET out == resumen_csv[i]
                in  == Entrada(out.Ticker)
                tp  == TecPresentes(in)
                fp  == FundPresentes(in)
            IN  /\ \A n \in {"SMA_vs_EMA", "MACD", "RSI", "Estado_Fibonacci"} :
                       (n \in tp) <=> (out[n] # NA)
                /\ \A n \in {"PER", "ROE", "EPS_Growth_YoY", "Deuda_Patrimonio"} :
                       (n \in fp) <=> (out[n] # NA)
                /\ EsPorcentaje(out.pct_Tecnico_Buy,
                                CountSeq(VotosTec(out), "COMPRAR"), Cardinality(tp))
                /\ EsPorcentaje(out.pct_Fundamental_Buy,
                                CountSeq(VotosFund(out), "COMPRAR"), Cardinality(fp))

\* RSI is null, the other three technical signals are present, one of them
\* COMPRAR: the percentage is 33.33 (it would be 25 with RSI counted as HOLD)
C2_Witness ==
    /\ etapa = "resumen"
    /\ \E i \in DOMAIN resumen_csv :
           LET out == resumen_csv[i]
               in  == Entrada(out.Ticker)
           IN  /\ ~notna(in.RSI_14)
               /\ out.RSI = NA
               /\ TecPresentes(in) = {"SMA_vs_EMA", "MACD", "Estado_Fibonacci"}
               /\ FEq(out.pct_Tecnico_Buy, Frac(3333, 100))

\* C3: each buy percentage is 100 * (labels COMPRAR) / (labels present) of its
\* group, rounded to 2 decimals, and null when the group has no label; the
\* technical group is SMA-vs-EMA, MACD, RSI, Fibonacci, the fundamental
\* group PER, ROE, EPS growth, Debt/Equity.
C3_PorcentajesDeCompra ==
    etapa = "resumen" =>
        \A i \in DOMAIN resumen_csv :
            LET out == resumen_csv[i]
                vt  == VotosTec(out)
                vf  == VotosFund(out)
            IN  /\ EsPorcentaje(out.pct_Tecnico_Buy, CountSeq(vt, "COMPRAR"),
                                4 - CountSeq(vt, NA))
                /\ EsPorcentaje(out.pct_Fundamental_Buy, CountSeq(vf, "COMPRAR"),
                                4 - CountSeq(vf, NA))

\* two of three present technical signals are COMPRAR (66.67) and no
\* fundamental signal is present (null)
C3_Witness ==
    /\ etapa = "resumen"
    /\ \E i \in DOMAIN resumen_csv :
           LET out == resumen_csv[i]
           IN  /\ CountSeq(VotosTec(out), NA) = 1
               /\ CountSeq(VotosTec(out), "COMPRAR") = 2
               /\ FEq(out.pct_Tecnico_Buy, Frac(6667, 100))
               /\ CountSeq(VotosFund(out), NA) = 4
               /\ out.pct_Fundamental_Buy = NaN

\* the label the spec's table gives for a value v: COMPRAR below lo and
\* VENDER above hi (or the reverse), MANTENER from lo to hi inclusive
BajoCompra(lbl, v, lo, hi) ==
    /\ (lbl = "COMPRAR") <=> FLt(v, lo)
    /\ (lbl = "VENDER") <=> FGt(v, hi)
    /\ (lbl = "MANTENER") <=> (FGe(v, lo) /\ FLe(v, hi))
AltoCompra(lbl, v, lo, hi) ==
    /\ (lbl = "COMPRAR") <=> FGt(v, hi)
    /\ (lbl = "VENDER") <=> FLt(v, lo)
    /\ (lbl = "MANTENER") <=> (FGe(v, lo) /\ FLe(v, hi))
Cruce(lbl, a, b) ==
    /\ (lbl = "COMPRAR") <=> FGt(a, b)
    /\ (lbl = "VENDER") <=> FLe(a, b)

\* C4: every present signal has the label of the spec's table, boundary
\* values included.  The Fibonacci vote is not a column of the DecisionRow:
\* it is read off a row whose other seven signals are absent, where it alone
\* decides Decision_Final and %_Tecnico_Buy.
C4_EtiquetasSegunTabla ==
    etapa = "resumen" =>
        \A i \in DOMAIN resumen_csv :
            LET out == resumen_csv[i]
                in  == Entrada(out.Ticker)
            IN  /\ "SMA_vs_EMA" \in TecPresentes(in) =>
                       Cruce(out.SMA_vs_EMA, in.SMA_20, in.EMA_20)
                /\ "MACD" \in TecPresentes(in) =>
                       Cruce(out.MACD, in.MACD, in.MACD_Signal)
                /\ notna(in.RSI_14) =>
                       BajoCompra(out.RSI, in.RSI_14, NumInt(30), NumInt(70))
                /\ notna(in.PER) =>
                       BajoCompra(out.PER, in.PER, NumInt(20), NumInt(30))
                /\ notna(in.ROE) =>
                       AltoCompra(out.ROE, in.ROE, Frac(5, 100), Frac(15, 100))
                /\ notna(in.EPS_Growth_YoY) =>
                       AltoCompra(out.EPS_Growth_YoY, in.EPS_Growth_YoY,
                                  Zero, Frac(10, 100))
                /\ notna(in.Deuda_Patrimonio) =>
                       BajoCompra(out.Deuda_Patrimonio, in.Deuda_Patrimonio,
                                  NumInt(100), NumInt(200))
                /\ (TecPresentes(in) = {"Estado_Fibonacci"} /\ FundPresentes(in) = {}) =>
                       /\ out.Decision_Final =
                             (CASE in.Estado_Fibonacci = "SOPORTE"     -> "COMPRAR"
                                [] in.Estado_Fibonacci = "RESISTENCIA" -> "VENDER"
                                [] OTHER                               -> "MANTENER")
                       /\ FEq(out.pct_Tecnico_Buy,
                              IF in.Estado_Fibonacci = "SOPORTE" THEN NumInt(100) ELSE Zero)

\* boundary values: SMA = EMA gives VENDER, RSI = 30 and PER = 30 give
\* MANTENER, ROE = 0.15 gives MANTENER, Debt/Equity = 100 gives MANTENER
C4_Witness ==
    /\ etapa = "resumen"
    /\ \E i \in DOMAIN resumen_csv :
           LET out == resumen_csv[i]
               in  == Entrada(out.Ticker)
           IN  /\ FEq(in.SMA_20, in.EMA_20) /\ out.SMA_vs_EMA = "VENDER"
               /\ FEq(in.RSI_14, NumInt(30)) /\ out.RSI = "MANTENER"
               /\ FEq(in.PER, NumInt(30)) /\ out.PER = "MANTENER"
               /\ FEq(in.ROE, Frac(15, 100)) /\ out.ROE = "MANTENER"
               /\ FEq(in.Deuda_Patrimonio, NumInt(100))
               /\ out.Deuda_Patrimonio = "MANTENER"

TickersDe(df) == {df[i].Ticker : i \in DOMAIN df}

\* C5: with at most one fundamentals row per ticker, the decision table has
\* exactly one row for every ticker that has an indicator row and a
\* fundamentals row, no row for any other ticker, and the row of a ticker is
\* derived from its indicator row with the greatest date.
C5_UnaFilaPorTickerUltimaFecha ==
    etapa = "resumen" =>
        /\ TickersDe(resumen_csv) =
              TickersDe(indicadores_csv) \cap TickersDe(fundamentales_csv)
        /\ \A i, j \in DOMAIN resumen_csv :
              resumen_csv[i].Ticker = resumen_csv[j].Ticker => i = j
        /\ \A i \in DOMAIN resumen_csv :
              resumen_csv[i] = resumen_fila(Entrada(resumen_csv[i].Ticker))

\* a ticker with fundamentals whose latest indicator row differs from an
\* earlier one, and another ticker with indicator rows but no fundamentals
C5_Witness ==
    /\ etapa = "resumen"
    /\ \E t \in TickersDe(resumen_csv) :
           \E a, b \in DOMAIN indicadores_csv :
               /\ indicadores_csv[a].Ticker = t /\ indicadores_csv[b].Ticker = t
               /\ indicadores_csv[a].Date < indicadores_csv[b].Date
               /\ indicadores_csv[a].RSI_14 # indicadores_csv[b].RSI_14
    /\ \E t \in TickersDe(indicadores_csv) : t \notin TickersDe(fundamentales_csv)
    /\ Len(resumen_csv) = 1

(***************************************************************************)
(* Claims about calcular_indicadores_tecnicos and                          *)
(* calcular_variaciones_precios, under SpecTransform                       *)
(***************************************************************************)
\* the rows of a ticker in the price file, and the one of a date
FilasDe(t) == {i \in DOMAIN precios_csv : precios_csv[i].Ticker = t}
FilaDe(t, d) ==
    CHOOSE i \in FilasDe(t) : precios_csv[i].Date = d
\* the dates of a ticker before the date d, and the latest of them
FechasAntes(t, d) == {precios_csv[i].Date : i \in {j \in FilasDe(t) : precios_csv[j].Date < d}}
FechaPrevia(t, d) == CHOOSE e \in FechasAntes(t, d) : \A f \in FechasAntes(t, d) : f <= e
UltimaFecha(t) ==
    CHOOSE e \in {precios_csv[i].Date : i \in FilasDe(t)} :
        \A i \in FilasDe(t) : precios_csv[i].Date <= e
CloseDe(t, d) == precios_csv[FilaDe(t, d)].Close

FibDe(r) == <<r.Fib_0_0, r.Fib_23_6, r.Fib_38_2, r.Fib_50_0, r.Fib_61_8, r.Fib_100>>
IndiceNivel(n) == CHOOSE k \in DOMAIN Niveles : Niveles[k] = n
\* the distance from the ticker's most recent close to the k-th level of row r
Distancia(r, k) ==
    FAbs(FSub(NumInt(CloseDe(r.Ticker, UltimaFecha(r.Ticker))), FibDe(r)[k]))

EstadoDeNivel(n) ==
    CASE n \in {"38.2%", "50.0%", "61.8%"} -> "SOPORTE"
      [] n \in {"0.0%", "23.6%"}           -> "RESISTENCIA"
      [] n = "100%"                        -> "NEUTRO"

EsCercano(r, n) ==
    /\ \A k \in DOMAIN Niveles : FLe(Distancia(r, n), Distancia(r, k))
    /\ \A k \in 1..(n - 1) : FGt(Distancia(r, k), Distancia(r, n))

\* C6: in every row of the indicator file, Nivel_Fib_Cercano is one of the six
\* levels, no level is nearer to the ticker's most recent close, every level
\* before it in the enumeration is strictly farther, and Estado_Fibonacci is
\* SOPORTE for 38.2%, 50.0%, 61.8%, RESISTENCIA for 0.0%, 23.6%, NEUTRO for 100%
C6_NivelFibonacciCercano ==
    \A i \in DOMAIN indicadores_csv :
        /\ indicadores_csv[i].Nivel_Fib_Cercano \in Range(Niveles)
        /\ EsCercano(indicadores_csv[i], IndiceNivel(indicadores_csv[i].Nivel_Fib_Cercano))
        /\ indicadores_csv[i].Estado_Fibonacci =
              EstadoDeNivel(indicadores_csv[i].Nivel_Fib_Cercano)

\* a ticker whose levels all tie (one close) has taken the first one, and
\* another ticker's most recent close is its lowest: the 100% level
C6_Witness ==
    \E i \in DOMAIN indicadores_csv, j \in DOMAIN indicadores_csv :
        /\ FEq(Distancia(indicadores_csv[i], 1), Distancia(indicadores_csv[i], 6))
        /\ indicadores_csv[i].Nivel_Fib_Cercano = "0.0%"
        /\ indicadores_csv[i].Estado_Fibonacci = "RESISTENCIA"
        /\ indicadores_csv[j].Nivel_Fib_Cercano = "100%"
        /\ indicadores_csv[j].Estado_Fibonacci = "NEUTRO"

\* the position of a row of the variations file among its ticker's dates
Posicion(r) == Cardinality({i \in FilasDe(r.Ticker) : precios_csv[i].Date <= r.Date})
\* the date of the ticker's row lag positions before the date d
RECURSIVE FechaRezagada(_, _, _)
FechaRezagada(t, d, lag) ==
    IF lag = 0 THEN d ELSE FechaRezagada(t, FechaPrevia(t, d), lag - 1)
Variacion(r, h) == <<r.var_daily, r.var_weekly, r.var_monthly, r.var_annual, r.var_5y>>[h]

\* C7: in every row of the variations file and for every horizon, a lagged
\* close of zero gives a null variation
C7_CierreRezagadoCeroDaNulo ==
    \A i \in DOMAIN variaciones_csv : \A h \in DOMAIN periods :
        (/\ Posicion(variaciones_csv[i]) > periods[h]
         /\ CloseDe(variaciones_csv[i].Ticker,
                    FechaRezagada(variaciones_csv[i].Ticker, variaciones_csv[i].Date,
                                  periods[h])) = 0)
        => Variacion(variaciones_csv[i], h) = NaN

\* C8: the indicators of a price file with no rows are computed without an
\* error and the indicator file has no rows
C8_TablaVaciaSinError ==
    (precios_csv = <<>> /\ etapa # "precios")
        => (etapa # "error" /\ indicadores_csv = <<>>)

\* the row of the indicator file for a ticker and a date
IndicadorDe(t, d) ==
    indicadores_csv[CHOOSE i \in DOMAIN indicadores_csv :
                        indicadores_csv[i].Ticker = t /\ indicadores_csv[i].Date = d]

\* C10: EMA_20 of a ticker's first date is that row's close; at every later
\* date, 21 * EMA_20 = 2 * close + 19 * (EMA_20 of the ticker's previous date)
C10_EMASembradaPorTicker ==
    \A i \in DOMAIN indicadores_csv :
        IF FechasAntes(indicadores_csv[i].Ticker, indicadores_csv[i].Date) = {}
        THEN FEq(indicadores_csv[i].EMA_20,
                 NumInt(CloseDe(indicadores_csv[i].Ticker, indicadores_csv[i].Date)))
        ELSE FEq(FMulInt(indicadores_csv[i].EMA_20, 21),
                 FAdd(FMulInt(NumInt(CloseDe(indicadores_csv[i].Ticker,
                                             indicadores_csv[i].Date)), 2),
                      FMulInt(IndicadorDe(indicadores_csv[i].Ticker,
                                          FechaPrevia(indicadores_csv[i].Ticker,
                                                      indicadores_csv[i].Date)).EMA_20,
                              19)))

\* the second ticker starts from its own close, which differs from the first
\* ticker's average, and its average then moves with a different close
C10_Witness ==
    \E i \in DOMAIN indicadores_csv, j \in DOMAIN indicadores_csv :
        /\ j + 1 \in DOMAIN indicadores_csv
        /\ indicadores_csv[i].Ticker = Tickers[1]
        /\ indicadores_csv[j].Ticker = Tickers[2]
        /\ indicadores_csv[j + 1].Ticker = Tickers[2]
        /\ j = i + 1
        /\ ~FEq(indicadores_csv[i].EMA_20, indicadores_csv[j].EMA_20)
        /\ FEq(indicadores_csv[j].EMA_20, indicadores_csv[j].Close)
        /\ ~FEq(indicadores_csv[j + 1].EMA_20, indicadores_csv[j + 1].Close)
        /\ ~FEq(indicadores_csv[j + 1].EMA_20, indicadores_csv[j].EMA_20)

(***************************************************************************)
(* Claims about calcular_rsi, under SpecRSI                                *)
(***************************************************************************)
\* the closes of the window of row i rise, or fall, somewhere
Sube(i) == \E j \in (i - VentanaRSI + 1)..i : entrada[j] > entrada[j - 1]
Baja(i) == \E j \in (i - VentanaRSI + 1)..i : entrada[j] < entrada[j - 1]

\* C9: a defined RSI lies in [0, 100]; with a full window of changes, it is
\* 100 when no close of the window falls and one rises (average loss 0,
\* average gain positive), and null when no close of the window changes
C9_RSIAcotado ==
    \A i \in DOMAIN salida :
        /\ notna(salida[i]) => FGe(salida[i], Zero) /\ FLe(salida[i], NumInt(100))
        /\ (i > VentanaRSI /\ ~Baja(i) /\ Sube(i)) => FEq(salida[i], NumInt(100))
        /\ (i > VentanaRSI /\ ~Baja(i) /\ ~Sube(i)) => salida[i] = NaN

\* a flat window gave null and the next row, after a rise, gave 100
C9_Witness ==
    \E i \in DOMAIN salida :
        /\ i > VentanaRSI
        /\ ~Baja(i) /\ ~Sube(i) /\ salida[i] = NaN
        /\ i + 1 \in DOMAIN salida
        /\ entrada[i + 1] > entrada[i] /\ FEq(salida[i + 1], NumInt(100))

(***************************************************************************)
(* Claims about calcular_atr, under SpecATR                                *)
(***************************************************************************)
MaxDe(a, b) == IF a >= b THEN a ELSE b

\* the true range of row i: High - Low on the first row, and later the
\* greatest of High - Low, |High - previous close|, |Low - previous close|
RangoVerdadero(i) ==
    IF i = 1 THEN entrada[i].High - entrada[i].Low
    ELSE MaxDe(entrada[i].High - entrada[i].Low,
               MaxDe(Abs(entrada[i].High - entrada[i - 1].Close),
                     Abs(entrada[i].Low - entrada[i - 1].Close)))

RECURSIVE SumaRango(_, _)
SumaRango(lo, hi) == IF lo > hi THEN 0 ELSE RangoVerdadero(lo) + SumaRango(lo + 1, hi)

\* C11: the ATR is null on the first 13 rows and, from the 14th row on, 14
\* times the ATR is the sum of the true ranges of the 14 most recent rows,
\* where the true range of the first row is High - Low
C11_RangoVerdaderoYATR ==
    \A i \in DOMAIN salida :
        IF i < VentanaATR THEN salida[i] = NaN
        ELSE FEq(FMulInt(salida[i], VentanaATR),
                 NumInt(SumaRango(i - VentanaATR + 1, i)))

\* the 14th row has an ATR whose window holds the first row, a gap up and a
\* gap down
C11_Witness ==
    /\ etapa = "atr"
    /\ Len(salida) >= VentanaATR
    /\ isfin(salida[VentanaATR])
    /\ \E j \in 2..VentanaATR, l \in 2..VentanaATR :
          /\ entrada[j].High - entrada[j - 1].Close > entrada[j].High - entrada[j].Low
          /\ entrada[l - 1].Close - entrada[l].Low > entrada[l].High - entrada[l].Low

(***************************************************************************)
(* More claims about calcular_indicadores_tecnicos, under SpecTransform    *)
(***************************************************************************)
\* the rows of the indicator file for a ticker
IndicadoresDe(t) == {i \in DOMAIN indicadores_csv : indicadores_csv[i].Ticker = t}

TodosNulos(r) ==
    /\ r.SMA_20 = NaN /\ r.SMA_50 = NaN /\ r.RSI_14 = NaN /\ r.ATR_14 = NaN
    /\ r.BB_Middle = NaN /\ r.BB_Upper = NaN /\ r.BB_Lower = NaN
    /\ r.Volatility_20 = NaN

\* C12: a ticker with exactly one price point has exactly one indicator row;
\* its SMA_20, SMA_50, RSI_14, ATR_14, Bollinger bands and Volatility_20 are
\* null, its EMA_20 is the close, its OBV is 0 and its six Fibonacci levels
\* equal the close
C12_UnSoloPunto ==
    \A i \in DOMAIN indicadores_csv :
        Cardinality(FilasDe(indicadores_csv[i].Ticker)) = 1 =>
            /\ Cardinality(IndicadoresDe(indicadores_csv[i].Ticker)) = 1
            /\ TodosNulos(indicadores_csv[i])
            /\ FEq(indicadores_csv[i].EMA_20,
                   NumInt(CloseDe(indicadores_csv[i].Ticker, indicadores_csv[i].Date)))
            /\ FEq(indicadores_csv[i].OBV, Zero)
            /\ \A k \in DOMAIN Niveles :
                  FEq(FibDe(indicadores_csv[i])[k],
                      NumInt(CloseDe(indicadores_csv[i].Ticker, indicadores_csv[i].Date)))

\* a ticker with one price point, of a close that is not zero, beside a
\* ticker with several
C12_Witness ==
    \E i \in DOMAIN indicadores_csv :
        /\ Cardinality(FilasDe(indicadores_csv[i].Ticker)) = 1
        /\ FGt(indicadores_csv[i].EMA_20, Zero)
        /\ Len(indicadores_csv) > 2

\* the rows of a table with the key (d, t)
ConClave(df, d, t) == {j \in DOMAIN df : df[j].Date = d /\ df[j].Ticker = t}

\* C13: once the indicators are written, the indicator file has as many rows
\* as the price file, as many rows of every ticker, no (date, ticker) that
\* the price file lacks, and exactly one row for the (date, ticker) of every
\* price row
C13_UnaFilaPorPrecio ==
    etapa \in {"indicadores", "resumen", "variaciones"} =>
        /\ Len(indicadores_csv) = Len(precios_csv)
        /\ \A k \in DOMAIN Tickers :
              Cardinality(IndicadoresDe(Tickers[k])) = Cardinality(FilasDe(Tickers[k]))
        /\ \A j \in DOMAIN indicadores_csv :
              ConClave(precios_csv, indicadores_csv[j].Date,
                       indicadores_csv[j].Ticker) # {}
        /\ \A i \in DOMAIN precios_csv :
              Cardinality(ConClave(indicadores_csv, precios_csv[i].Date,
                                   precios_csv[i].Ticker)) = 1

\* both tickers have rows, one of them several
C13_Witness ==
    /\ etapa = "indicadores"
    /\ Cardinality(IndicadoresDe(Tickers[1])) >= 1
    /\ Cardinality(IndicadoresDe(Tickers[2])) >= 2

\* the closes of a ticker in the price file
ClosesDe(t) == {precios_csv[i].Close : i \in FilasDe(t)}

\* C15: on every indicator row the six levels are in descending order, the
\* first is the greatest close of the ticker and the last its least close
C15_NivelesOrdenados ==
    \A i \in DOMAIN indicadores_csv :
        /\ \A k \in 1..(Len(Niveles) - 1) :
              FGe(FibDe(indicadores_csv[i])[k], FibDe(indicadores_csv[i])[k + 1])
        /\ \E mx \in ClosesDe(indicadores_csv[i].Ticker),
              mn \in ClosesDe(indicadores_csv[i].Ticker) :
              /\ \A c \in ClosesDe(indicadores_csv[i].Ticker) : mn <= c /\ c <= mx
              /\ FEq(indicadores_csv[i].Fib_0_0, NumInt(mx))
              /\ FEq(indicadores_csv[i].Fib_100, NumInt(mn))

\* a ticker of three different closes: its levels descend strictly
C15_Witness ==
    \E i \in DOMAIN indicadores_csv :
        /\ Cardinality(ClosesDe(indicadores_csv[i].Ticker)) = 3
        /\ \A k \in 1..(Len(Niveles) - 1) :
              FGt(FibDe(indicadores_csv[i])[k], FibDe(indicadores_csv[i])[k + 1])

\* C16: two indicator rows of the same ticker carry the same six levels, the
\* same Nivel_Fib_Cercano and the same Estado_Fibonacci
C16_FibonacciPorTicker ==
    \A i \in DOMAIN indicadores_csv, j \in DOMAIN indicadores_csv :
        indicadores_csv[i].Ticker = indicadores_csv[j].Ticker =>
            /\ \A k \in DOMAIN Niveles :
                  FEq(FibDe(indicadores_csv[i])[k], FibDe(indicadores_csv[j])[k])
            /\ indicadores_csv[i].Nivel_Fib_Cercano = indicadores_csv[j].Nivel_Fib_Cercano
            /\ indicadores_csv[i].Estado_Fibonacci = indicadores_csv[j].Estado_Fibonacci

\* two rows of a ticker of different closes, one at the highest and one at
\* the lowest, carry the same level
C16_Witness ==
    \E i \in DOMAIN indicadores_csv, j \in DOMAIN indicadores_csv :
        /\ indicadores_csv[i].Ticker = indicadores_csv[j].Ticker
        /\ FEq(indicadores_csv[i].Close, indicadores_csv[i].Fib_0_0)
        /\ FEq(indicadores_csv[j].Close, indicadores_csv[j].Fib_100)
        /\ FGt(indicadores_csv[i].Close, indicadores_csv[j].Close)
        /\ indicadores_csv[i].Nivel_Fib_Cercano = indicadores_csv[j].Nivel_Fib_Cercano

VolumeDe(t, d) == precios_csv[FilaDe(t, d)].Volume

\* the OBV that follows prev on a row of close c and volume v after a row of
\* close c0
ObvSiguiente(prev, c0, c, v) ==
    IF c > c0 THEN FAdd(prev, NumInt(v))
    ELSE IF c < c0 THEN FSub(prev, NumInt(v))
    ELSE prev

\* C17: the OBV of a ticker's first date is 0; at every later date it is the
\* OBV of the ticker's previous date plus the volume when the close rose,
\* minus the volume when it fell, and unchanged when the closes are equal
C17_OBVAcumulado ==
    \A i \in DOMAIN indicadores_csv :
        IF FechasAntes(indicadores_csv[i].Ticker, indicadores_csv[i].Date) = {}
        THEN FEq(indicadores_csv[i].OBV, Zero)
        ELSE FEq(indicadores_csv[i].OBV,
                 ObvSiguiente(
                     IndicadorDe(indicadores_csv[i].Ticker,
                                 FechaPrevia(indicadores_csv[i].Ticker,
                                             indicadores_csv[i].Date)).OBV,
                     CloseDe(indicadores_csv[i].Ticker,
                             FechaPrevia(indicadores_csv[i].Ticker,
                                         indicadores_csv[i].Date)),
                     CloseDe(indicadores_csv[i].Ticker, indicadores_csv[i].Date),
                     VolumeDe(indicadores_csv[i].Ticker, indicadores_csv[i].Date)))

\* a ticker whose close rose and then fell: its OBV went up from 0 and then
\* down again
C17_Witness ==
    \E i \in DOMAIN indicadores_csv :
        /\ i + 2 \in DOMAIN indicadores_csv
        /\ indicadores_csv[i].Ticker = indicadores_csv[i + 2].Ticker
        /\ FEq(indicadores_csv[i].OBV, Zero)
        /\ FGt(indicadores_csv[i + 1].OBV, Zero)
        /\ FLt(indicadores_csv[i + 2].OBV, indicadores_csv[i + 1].OBV)

(***************************************************************************)
(* Estado_BollingerBands, under SpecBollinger                              *)
(***************************************************************************)
\* the state the rule gives to a close and its bands
EstadoBandas(close, upper, lower) ==
    IF close = NaN \/ upper = NaN \/ lower = NaN THEN NA
    ELSE IF ~FLe(close, upper) THEN "Sobrecompra"
    ELSE IF ~FGe(close, lower) THEN "Sobreventa"
    ELSE "Normal"

MismoValor(a, b) == IF a = NaN \/ b = NaN THEN a = b ELSE FEq(a, b)

\* the columns of an input row other than the ticker, the close and the bands
SinBandas(row) ==
    <<row.SMA_20, row.EMA_20, row.RSI_14, row.MACD, row.MACD_Signal,
      row.Estado_Fibonacci, row.PER, row.ROE, row.EPS_Growth_YoY,
      row.Deuda_Patrimonio>>

\* C19: Estado_BollingerBands is null when the close or a band of the latest
\* row is null, Sobrecompra when the close is above the upper band,
\* Sobreventa when it is below the lower band and Normal otherwise, a close
\* on a band included; and two tickers whose rows differ in the close and
\* the bands only have the same Decision_Final and percentages
C19_BollingerInformativo ==
    /\ \A i \in DOMAIN resumen_csv :
          resumen_csv[i].Estado_BollingerBands =
              EstadoBandas(UltimaFila(resumen_csv[i].Ticker).Close,
                           UltimaFila(resumen_csv[i].Ticker).BB_Upper,
                           UltimaFila(resumen_csv[i].Ticker).BB_Lower)
    /\ \A i \in DOMAIN resumen_csv, j \in DOMAIN resumen_csv :
          SinBandas(Entrada(resumen_csv[i].Ticker)) = SinBandas(Entrada(resumen_csv[j].Ticker)) =>
              /\ resumen_csv[i].Decision_Final = resumen_csv[j].Decision_Final
              /\ MismoValor(resumen_csv[i].pct_Tecnico_Buy, resumen_csv[j].pct_Tecnico_Buy)
              /\ MismoValor(resumen_csv[i].pct_Fundamental_Buy,
                            resumen_csv[j].pct_Fundamental_Buy)

\* one ticker closes on its upper band and is Normal, the other closes above
\* it and is Sobrecompra, and both are to be bought
C19_Witness ==
    \E i \in DOMAIN resumen_csv, j \in DOMAIN resumen_csv :
        /\ FEq(UltimaFila(resumen_csv[i].Ticker).Close,
               UltimaFila(resumen_csv[i].Ticker).BB_Upper)
        /\ resumen_csv[i].Estado_BollingerBands = "Normal"
        /\ resumen_csv[j].Estado_BollingerBands = "Sobrecompra"
        /\ resumen_csv[i].Decision_Final = "COMPRAR"
        /\ resumen_csv[j].Decision_Final = "COMPRAR"

Rezagos == <<1, 5, 21, 252, 1260>>

\* the position of the date d among the dates of ticker t in the price file
PosicionEn(t, d) ==
    Cardinality({i \in DOMAIN entrada : entrada[i].Ticker = t /\ entrada[i].Date <= d})
\* the close of ticker t at its p-th date
CierreEn(t, p) ==
    entrada[CHOOSE i \in DOMAIN entrada :
                entrada[i].Ticker = t /\ PosicionEn(t, entrada[i].Date) = p].Close
\* (close[i] - close[i-L]) / close[i-L], to 4 decimals
CambioRelativo(c, c0) == FRound(FDiv(NumInt(c - c0), NumInt(c0)), 4)

RECURSIVE SumaCierres(_, _, _)
SumaCierres(t, lo, hi) ==
    IF lo > hi THEN 0
    ELSE precios_csv[CHOOSE i \in FilasDe(t) : Posicion(precios_csv[i]) = hi].Close
         + SumaCierres(t, lo, hi - 1)

\* C14: SMA_20 is null on the first 19 rows of a ticker by date and, from
\* its 20th row on, it is the mean of the 20 most recent closes of that
\* ticker
C14_SMA20PorTicker ==
    \A i \in DOMAIN indicadores_csv :
        IF Posicion(indicadores_csv[i]) < VentanaSMA
        THEN indicadores_csv[i].SMA_20 = NaN
        ELSE /\ indicadores_csv[i].SMA_20 # NaN
             /\ FEq(FMulInt(indicadores_csv[i].SMA_20, VentanaSMA),
                    NumInt(SumaCierres(indicadores_csv[i].Ticker,
                                       Posicion(indicadores_csv[i]) - VentanaSMA + 1,
                                       Posicion(indicadores_csv[i]))))

\* a ticker of 21 dates whose first close is above the others: its SMA_20
\* is null at the 19th, and lower at the 21st than at the 20th; the row of
\* the other ticker, which follows them in the table, has no SMA_20
C14_Witness ==
    \E i \in DOMAIN indicadores_csv :
        /\ i + VentanaSMA + 1 \in DOMAIN indicadores_csv
        /\ indicadores_csv[i].Ticker = indicadores_csv[i + VentanaSMA].Ticker
        /\ indicadores_csv[i + VentanaSMA - 2].SMA_20 = NaN
        /\ FGt(indicadores_csv[i + VentanaSMA - 1].SMA_20,
               indicadores_csv[i + VentanaSMA].SMA_20)
        /\ indicadores_csv[i + VentanaSMA + 1].Ticker # indicadores_csv[i].Ticker
        /\ indicadores_csv[i + VentanaSMA + 1].SMA_20 = NaN

(***************************************************************************)
(* A ticker of equal closes, under SpecTransform                           *)
(***************************************************************************)
\* C29: on the rows of a ticker whose closes are all equal the six levels
\* coincide, the nearest level is 0.0% and the state RESISTENCIA; on the
\* first row of every ticker MACD, MACD_Signal and MACD_Hist are 0; and the
\* decision row of a ticker with one price point has the two technical
\* signals MACD and Estado_Fibonacci, both to sell, and a %_Tecnico_Buy of 0
C29_CierresIguales ==
    /\ \A i \in DOMAIN indicadores_csv :
          /\ Cardinality(ClosesDe(indicadores_csv[i].Ticker)) = 1 =>
                /\ \A k \in DOMAIN Niveles :
                      FEq(FibDe(indicadores_csv[i])[k], indicadores_csv[i].Fib_0_0)
                /\ indicadores_csv[i].Nivel_Fib_Cercano = "0.0%"
                /\ indicadores_csv[i].Estado_Fibonacci = "RESISTENCIA"
          /\ FechasAntes(indicadores_csv[i].Ticker, indicadores_csv[i].Date) = {} =>
                /\ FEq(indicadores_csv[i].MACD, Zero)
                /\ FEq(indicadores_csv[i].MACD_Signal, Zero)
                /\ FEq(indicadores_csv[i].MACD_Hist, Zero)
    /\ \A j \in DOMAIN resumen_csv :
          Cardinality(FilasDe(resumen_csv[j].Ticker)) = 1 =>
              /\ resumen_csv[j].SMA_vs_EMA = NA
              /\ resumen_csv[j].RSI = NA
              /\ resumen_csv[j].MACD = "VENDER"
              /\ resumen_csv[j].Estado_Fibonacci = "RESISTENCIA"
              /\ VotoFib(resumen_csv[j].Estado_Fibonacci) = "VENDER"
              /\ FEq(resumen_csv[j].pct_Tecnico_Buy, Zero)

\* the decision row of a ticker with one price point, beside a ticker of two
\* dates with the same close
C29_Witness ==
    /\ \E j \in DOMAIN resumen_csv : Cardinality(FilasDe(resumen_csv[j].Ticker)) = 1
    /\ \E i \in DOMAIN indicadores_csv :
          /\ Cardinality(FilasDe(indicadores_csv[i].Ticker)) = 2
          /\ Cardinality(ClosesDe(indicadores_csv[i].Ticker)) = 1
          /\ FGt(indicadores_csv[i].Close, Zero)

(***************************************************************************)
(* A null input against a MANTENER, under SpecMantener                     *)
(***************************************************************************)
\* the inputs that have a band of MANTENER, the values of the band that are
\* tried, and the null of the column
ConBanda == {"RSI_14", "Estado_Fibonacci", "PER", "ROE", "EPS_Growth_YoY", "Deuda_Patrimonio"}
EnBanda(campo) ==
    CASE campo = "RSI_14"           -> Nums({30, 50, 70})
      [] campo = "Estado_Fibonacci" -> {"NEUTRO"}
      [] campo = "PER"              -> Nums({20, 25, 30})
      [] campo = "ROE"              -> Cents({5, 10, 15})
      [] campo = "EPS_Growth_YoY"   -> Cents({0, 5, 10})
      [] campo = "Deuda_Patrimonio" -> Nums({100, 150, 200})
Nulo(campo) == IF campo = "Estado_Fibonacci" THEN NA ELSE NaN
EsMantener(e, campo) == \E v \in EnBanda(campo) : e[campo] = v

\* C30: when an input that has a band of MANTENER is null, putting a value
\* of the band in its place leaves Decision_Final as it is, and so does
\* putting a null in the place of a value of the band
C30_NuloComoMantener ==
    \A i \in DOMAIN resumen_csv : \A campo \in ConBanda :
        /\ Entrada(resumen_csv[i].Ticker)[campo] = Nulo(campo) =>
              \A v \in EnBanda(campo) :
                  resumen_fila([Entrada(resumen_csv[i].Ticker) EXCEPT ![campo] = v]).Decision_Final
                      = resumen_csv[i].Decision_Final
        /\ EsMantener(Entrada(resumen_csv[i].Ticker), campo) =>
              resumen_fila([Entrada(resumen_csv[i].Ticker)
                               EXCEPT ![campo] = Nulo(campo)]).Decision_Final
                  = resumen_csv[i].Decision_Final

\* a ticker to buy whose RSI is null: an RSI of 50 keeps the decision and
\* lowers %_Tecnico_Buy
C30_Witness ==
    \E i \in DOMAIN resumen_csv :
        /\ Entrada(resumen_csv[i].Ticker).RSI_14 = NaN
        /\ EsMantener(Entrada(resumen_csv[i].Ticker), "PER")
        /\ resumen_csv[i].Decision_Final = "COMPRAR"
        /\ FLt(resumen_fila([Entrada(resumen_csv[i].Ticker)
                                EXCEPT !.RSI_14 = NumInt(50)]).pct_Tecnico_Buy,
               resumen_csv[i].pct_Tecnico_Buy)

(***************************************************************************)
(* The rows of one ticker, under SpecPermutado                             *)
(***************************************************************************)
\* the indicator rows of the price rows of ticker t alone, in date order
SoloDe(t) ==
    IF FilasDe(t) = {} THEN <<>>
    ELSE indicadores_grupo(SortRows(OfTicker(precios_csv, t), ByDate))

\* C21: the indicator rows of a ticker are those computed from the price
\* rows of that ticker alone, whatever the order of the rows in the price
\* file and whatever the rows of the other tickers
C21_SoloSusPrecios ==
    etapa = "indicadores" =>
        \A k \in DOMAIN Tickers :
            OfTicker(indicadores_csv, Tickers[k]) = SoloDe(Tickers[k])

\* a price file in the opposite order, with both tickers, the second of them
\* with two dates and a rise of its close
C21_Witness ==
    /\ etapa = "indicadores"
    /\ Len(precios_csv) = MaxFilas
    /\ precios_csv[1].Date > precios_csv[Len(precios_csv)].Date
    /\ IndicadoresDe(Tickers[1]) # {}
    /\ \E i \in IndicadoresDe(Tickers[2]) : FGt(indicadores_csv[i].OBV, Zero)

(***************************************************************************)
(* The load stage, under SpecPipeline                                      *)
(***************************************************************************)
\* what a load leaves of a table that had rows: every stored row as it was,
\* and new rows only from the file, all of them later than the last stored
\* date
Incremental(antes, despues, df) ==
    antes # {} =>
        /\ antes \subseteq despues
        /\ \A r \in despues \ antes :
              /\ r.Date > max_date(antes)
              /\ \E i \in DOMAIN df : df[i] = r
        /\ (\A i \in DOMAIN df : df[i].Date <= max_date(antes)) => despues = antes

\* C25: upsert_precios_historicos, upsert_indicadores_tecnicos and
\* upsert_precios_variaciones, on a table that has rows, write only the rows
\* of the file dated after the last date of the table, leave every stored
\* row unchanged, and leave the table unchanged when the file has no later
\* row
C25_CargaIncremental ==
    [][/\ etapa' = "carga precios" =>
             Incremental(bd.precios_historicos, bd'.precios_historicos, precios_csv)
       /\ etapa' = "carga indicadores" =>
             Incremental(bd.indicadores_tecnicos, bd'.indicadores_tecnicos, indicadores_csv)
       /\ etapa' = "fin" =>
             Incremental(bd.precios_variaciones, bd'.precios_variaciones, variaciones_csv)]_vars

\* a stored row of the file's key and another value
Desfasada(tabla, df) ==
    \E r \in tabla : \E i \in DOMAIN df : Clave(df[i]) = Clave(r) /\ df[i] # r

\* the second load of the indicators has added the rows of a later date to
\* a table that keeps a row of the first load that the file now gives with
\* other values
C25_Witness ==
    /\ etapa = "carga indicadores"
    /\ corridas = 2
    /\ Desfasada(bd.indicadores_tecnicos, indicadores_csv)
    /\ \E r \in bd.indicadores_tecnicos : r.Date = hoy
    /\ \E r \in bd.indicadores_tecnicos : r.Date < hoy

(***************************************************************************)
(* The raw price file, under SpecPipeline                                  *)
(***************************************************************************)
\* no two rows of the same date and ticker
Unica(df) ==
    \A i, j \in DOMAIN df :
        (df[i].Date = df[j].Date /\ df[i].Ticker = df[j].Ticker) => i = j

\* every row of antes is a row of despues, with its values
Conserva(antes, despues) == \A i \in DOMAIN antes : \E j \in DOMAIN despues : despues[j] = antes[i]

\* the rows of despues that antes has not
Nuevas(antes, despues) == {j \in DOMAIN despues : \A i \in DOMAIN antes : antes[i] # despues[j]}

\* C26: a call of actualizar_datos_historicos keeps every row of the raw
\* price file with its values, adds only rows dated after the last date the
\* file had, keeps the file unique on (Date, Ticker), and leaves the file as
\* it was when it does not exist, when it already reaches today and when the
\* download brings nothing
C26_PreciosInmutables ==
    [][etapa' = "historicos" =>
          IF raw_historicos = <<>> THEN raw_historicos' = raw_historicos
          ELSE /\ Conserva(raw_historicos, raw_historicos')
               /\ \A j \in Nuevas(raw_historicos, raw_historicos') :
                     raw_historicos'[j].Date > ultima_fecha(raw_historicos)
               /\ Unica(raw_historicos) => Unica(raw_historicos')
               /\ ultima_fecha(raw_historicos) >= hoy => raw_historicos' = raw_historicos
               /\ Nuevas(raw_historicos, raw_historicos') = {} =>
                     raw_historicos' = raw_historicos]_vars

\* the first run of main() has added today's rows to a file that had the
\* rows of an earlier date
C26_Witness ==
    /\ etapa = "historicos"
    /\ corridas = 1
    /\ \E i \in DOMAIN raw_historicos : raw_historicos[i].Date = hoy
    /\ \E i \in DOMAIN raw_historicos : raw_historicos[i].Date < hoy

(***************************************************************************)
(* The order of main(), under SpecPipeline                                 *)
(***************************************************************************)
\* the value of etapa after each call of main(), in the order of the calls
Orden ==
    <<"historicos", "extraccion",
      "empresas", "precios listos", "precios", "indicadores", "resumen", "variaciones",
      "carga empresas", "carga precios", "carga fundamentales", "carga indicadores",
      "carga resumen", "fin">>

PosicionEtapa(e) == IF \E k \in DOMAIN Orden : Orden[k] = e
               THEN CHOOSE k \in DOMAIN Orden : Orden[k] = e
               ELSE 0

\* the value of etapa is the one left by a call among the a-th to the b-th
Entre(e, a, b) == PosicionEtapa(e) >= a /\ PosicionEtapa(e) <= b

\* the files of the decision are those of one and the same run
DelMismoRun ==
    /\ fundamentales_csv = Columnas(raw_fundamentales,
                                    {"Ticker", "PER", "ROE", "EPS_Growth_YoY", "Deuda_Patrimonio"})
    /\ indicadores_csv = concat(indicadores_desde(SortRows(precios_csv, ByTickerDate), 1))
    /\ resumen_csv = resumen_inversion(indicadores_csv, fundamentales_csv)

\* C27: main() makes its calls in the order extraction, transformation,
\* load; the raw files change only in the extraction, the clean files only
\* in the transformation, the database only in the load; from the call of
\* calcular_resumen_inversion to the end of the run the decision file is the
\* one computed from the indicator and fundamentals files written in that
\* run; and after a call that raises nothing more of the run is executed
C27_EtapasEnOrden ==
    /\ [](Entre(etapa, 7, 14) => DelMismoRun)
    /\ [][/\ etapa' # etapa =>
                \/ etapa \notin Reposo /\ etapa' = "error"
                \/ etapa \in Reposo /\ etapa' = "historicos"
                \/ PosicionEtapa(etapa) >= 1 /\ PosicionEtapa(etapa') = PosicionEtapa(etapa) + 1
          /\ raw_fundamentales' # raw_fundamentales => Entre(etapa', 1, 2)
          /\ (archivos' # archivos \/ empresas_csv' # empresas_csv) => Entre(etapa', 3, 8)
          /\ bd' # bd => Entre(etapa', 9, 14)
          /\ etapa = "error" =>
                (bd' = bd /\ archivos' = archivos /\ empresas_csv' = empresas_csv)]_vars

\* the second run stopped in transformar_indicadores_fundamentales: the
\* price file has the rows of a date that the database, loaded by the first
\* run, has not
C27_Witness ==
    /\ etapa = "error"
    /\ corridas = 2
    /\ raw_fundamentales = <<>>
    /\ bd.precios_historicos # {}
    /\ bd.resumen_inversion # {}
    /\ \E i \in DOMAIN precios_csv : precios_csv[i].Date > max_date(bd.precios_historicos)

(***************************************************************************)
(* The database against the files, under SpecPipeline                      *)
(***************************************************************************)
\* every stored row of the key of a row of the file has the values of the
\* file
ValoresDelArchivo(tabla, df) ==
    \A i \in DOMAIN df : \A r \in tabla : Clave(r) = Clave(df[i]) => r = df[i]

\* no two stored rows of the same key
SinClaveRepetida(tabla) == \A r1, r2 \in tabla : Clave(r1) = Clave(r2) => r1 = r2

\* C22: after the load of a file into its table, the table holds the
\* values of the file for every key of the file that it holds, and no table
\* ever holds two rows of the same key
C22_UltimaEscrituraGana ==
    /\ SinClaveRepetida(bd.empresas)
    /\ SinClaveRepetida(bd.precios_historicos)
    /\ SinClaveRepetida(bd.indicadores_fundamentales)
    /\ SinClaveRepetida(bd.indicadores_tecnicos)
    /\ SinClaveRepetida(bd.resumen_inversion)
    /\ SinClaveRepetida(bd.precios_variaciones)
    /\ etapa = "carga empresas" => ValoresDelArchivo(bd.empresas, empresas_csv)
    /\ etapa = "carga precios" => ValoresDelArchivo(bd.precios_historicos, precios_csv)
    /\ etapa = "carga fundamentales" =>
          ValoresDelArchivo(bd.indicadores_fundamentales, fundamentales_csv)
    /\ etapa = "carga indicadores" => ValoresDelArchivo(bd.indicadores_tecnicos, indicadores_csv)
    /\ etapa = "carga resumen" => ValoresDelArchivo(bd.resumen_inversion, resumen_csv)
    /\ etapa = "fin" => ValoresDelArchivo(bd.precios_variaciones, variaciones_csv)

\* C23: after upsert_resumen_inversion the decision table of the database
\* holds exactly the rows of the decision file of that run: no row of an
\* earlier run is left for a ticker that the file does not have
C23_DecisionReemplazada ==
    etapa = "carga resumen" => bd.resumen_inversion = Range(resumen_csv)

(***************************************************************************)
(* Failures of the core transforms, under SpecFalla                        *)
(***************************************************************************)
\* calcular_resumen_inversion cannot finish on these files
FallaDecision ==
    \/ Faltan(indicadores_csv, {"Date", "Ticker"})
    \/ Faltan(fundamentales_csv, {"Ticker"})
    \/ Faltan(precios_csv, ColumnasCierre)
    \/ Faltan(df_merge(indicadores_csv, fundamentales_csv), ColumnasDecision)

\* C24: a call of calcular_indicadores_tecnicos, calcular_resumen_inversion
\* or calcular_variaciones_precios changes no file but its output; when the
\* computation fails for some ticker or for a column that is not there, the
\* output file is left as it was, and otherwise it is written whole, with
\* the rows of every ticker
C24_SinEscrituraParcial ==
    [][/\ etapa = "precios" =>
             /\ UNCHANGED <<precios_csv, fundamentales_csv, resumen_csv, variaciones_csv>>
             /\ IF Faltan(precios_csv, ColumnasPrecios)
                THEN indicadores_csv' = indicadores_csv
                ELSE Len(indicadores_csv') = Len(precios_csv)
       /\ etapa = "indicadores" =>
             /\ UNCHANGED <<precios_csv, fundamentales_csv, indicadores_csv, variaciones_csv>>
             /\ IF FallaDecision
                THEN resumen_csv' = resumen_csv
                ELSE Len(resumen_csv') = Len(df_merge(indicadores_csv, fundamentales_csv))
       /\ etapa = "resumen" =>
             /\ UNCHANGED <<precios_csv, fundamentales_csv, indicadores_csv, resumen_csv>>
             /\ IF Faltan(precios_csv, ColumnasCierre)
                THEN variaciones_csv' = variaciones_csv
                ELSE Len(variaciones_csv') = Len(precios_csv)
       /\ etapa' = "error" => archivos' = archivos]_vars

\* calcular_indicadores_tecnicos or calcular_variaciones_precios has failed
\* on the second ticker, whose rows have no close, after the first ticker,
\* whose rows are whole; the outputs of the earlier run are in place
C24_Witness ==
    /\ etapa = "error"
    /\ ~Faltan(OfTicker(precios_csv, Tickers[1]), ColumnasPrecios)
    /\ Faltan(OfTicker(precios_csv, Tickers[2]), {"Close"})
    /\ indicadores_csv = IndicadoresAnteriores
    /\ resumen_csv # <<>>
    /\ variaciones_csv = variaciones_precios(PreciosDelDia(1))

\* the table has a row for the key of every row of the file
ClavesCargadas(tabla, df) ==
    \A i \in DOMAIN df : \E r \in tabla : Clave(r) = Clave(df[i])

\* C28: at the end of a complete run of main(), every (date, ticker) of
\* the price, indicator and variation files has its row in the table of the
\* database, also for a ticker whose rows appear in the files after the
\* database holds rows of other tickers of the same or a later date
C28_TodoCargado ==
    etapa = "fin" =>
        /\ ClavesCargadas(bd.precios_historicos, precios_csv)
        /\ ClavesCargadas(bd.indicadores_tecnicos, indicadores_csv)
        /\ ClavesCargadas(bd.precios_variaciones, variaciones_csv)


====
